---------------------------- MODULE Spec2Model ----------------------------
(***************************************************************************)
(* Model of the rossa packet-flow simulator and of its three schedulers    *)
(* (fixed, rnd_choice, capacity) running on the temporal graph.            *)
(*                                                                         *)
(* Indices are 0-based as in the source: phases 0..P-1, nodes 0..N-1,      *)
(* ports 0..Q-1, flows 0..F-1.  Vertex descriptors are the integers the    *)
(* vecS adjacency_list hands out in createVertices: Node(n) = n,           *)
(* PhaseNode(ph,n) = N + ph*N + n, PhasePort(ph,p) = N + P*N + ph*Q + p.   *)
(***************************************************************************)
EXTENDS Integers, Sequences, FiniteSets, TLC

VARIABLES
    ext,            \* which scheduler library is linked: "fixed", "rnd_choice", "capacity"
    build,          \* what the build does on signed overflow: "wrap" or "trap"
    network,        \* Network: parameters, flows and topology as pushed by __ON_CONSTRUCT__
    params,         \* Params of the linked scheduler (approach, numPaths, alternativeTreshold)
    toggle,         \* the phases the generated schedule toggle reschedules in every step
    pSolutions,     \* rnd_choice / capacity: per flow, (node,phase) -> list of PortInPhase
    buffers,        \* network.buffers: the scheduler-side copy of the port buffers
    pChoiceCache,   \* fixed: (phase,node,destination) -> ScheduleChoice, filled on a miss
    random_gen,     \* rnd_choice: std::mt19937 as (seed, number of draws since seeding)
    random_num,     \* rnd_choice: the number drawn by the last customPrepareChoices
    gPortBuffers,   \* simulator: (phase,port,flow) -> packets
    gCurrentPhase,
    gDidOverflow,
    gPortSent,
    maxSendFromPortInPhase,
    pc,             \* lifecycle: "constructed", "running", "aborted"
    constraints,    \* result of the last verifyConstraints: "unchecked", "ok", "failed"
    steps,          \* simulatePhase calls since the last begin
    window,         \* answers of getChoice since the last prepareChoices: query -> choice
    lastQuery,      \* the last host-side getScheduleChoice call and its answer
    lastStep,       \* what the last simulatePhase did (sent, recv, injected, ...)
    shadow,         \* the operations since begin() replayed on a fresh process
    gCurrentStep,   \* sampling model: non-cyclic step counter
    sampleIntroIndex,   \* sampling model, per flow: packets to inject before the tagged one
    sampleEntryStep,
    samplePortPhasePosition,
    samplePort,
    samplePhase,
    sampleLatency,
    hashed          \* the last hash_bounded call followed: its arguments and its result

cfgVars == <<ext, build, network, params, toggle, pSolutions>>
extVars == <<buffers, pChoiceCache, random_gen, random_num>>
simVars == <<gPortBuffers, gCurrentPhase, gDidOverflow, gPortSent,
             maxSendFromPortInPhase>>
vars == <<ext, build, network, params, toggle, pSolutions, buffers,
          pChoiceCache, random_gen, random_num, gPortBuffers, gCurrentPhase,
          gDidOverflow, gPortSent, maxSendFromPortInPhase, pc, constraints,
          steps, window, lastQuery, lastStep, shadow, gCurrentStep,
          sampleIntroIndex, sampleEntryStep, samplePortPhasePosition,
          samplePort, samplePhase, sampleLatency, hashed>>
sampVars == <<gCurrentStep, sampleIntroIndex, sampleEntryStep,
              samplePortPhasePosition, samplePort, samplePhase, sampleLatency>>

-----------------------------------------------------------------------------
(* Generic helpers *)

\* A tuple as a 0-based array.
Z(s) == [i \in 0..(Len(s) - 1) |-> s[i + 1]]

Min2(a, b) == IF a < b THEN a ELSE b
Max2(a, b) == IF a > b THEN a ELSE b

RECURSIVE SumTo(_, _)
\* sum of g[0] .. g[n]
SumTo(g, n) == IF n < 0 THEN 0 ELSE g[n] + SumTo(g, n - 1)

\* The elements of a finite set of integers in ascending order.
RECURSIVE Ascending(_)
Ascending(S) ==
    IF S = {} THEN <<>>
    ELSE LET m == CHOOSE x \in S : \A y \in S : x <= y
         IN <<m>> \o Ascending(S \ {m})

RECURSIVE StoredOn(_, _)
StoredOn(g, S) ==
    IF S = {} THEN << >>
    ELSE LET x == CHOOSE y \in S : TRUE
         IN (x :> g[x]) @@ StoredOn(g, S \ {x})

\* the function g as a table of its values, each computed once; equal to g
Stored(g) == StoredOn(g, DOMAIN g)

NoChoice == [port |-> -1, phase |-> -1]

-----------------------------------------------------------------------------
(* Topology and index helpers (ext.hpp, temporal_graph.hpp) *)

Phases(t) == 0..(t.num_phases - 1)
Nodes(t)  == 0..(t.num_nodes - 1)
Ports(t)  == 0..(t.num_ports - 1)
Flows(t)  == 0..(t.num_flows - 1)

\* Topology::operator(): target of the port in the phase
TopoAt(t, phase, port) == t.topology[phase * t.num_ports + port]

\* a phaseAdd that always advances by one phase
phaseAdd_one(t, p, add) == (p + 1) % t.num_phases

phaseAdd(t, p, add) == (p + add) % t.num_phases

nIndex(t, node) == node
\* a pnIndex that numbers the phase nodes node by node
pnIndex_byNode(t, phase, node) == node * t.num_phases + phase

pnIndex(t, phase, node) == phase * t.num_nodes + node
ppIndex(t, phase, port) == phase * t.num_ports + port

\* the descriptors createVertices stores in vNodes, vPN and vPP
vNodes(t, i) == i
vPN(t, i) == t.num_nodes + i
vPP(t, i) == t.num_nodes + t.num_phases * t.num_nodes + i

NumVertices(t) == t.num_nodes + t.num_phases * t.num_nodes + t.num_phases * t.num_ports
Vertices(t) == 0..(NumVertices(t) - 1)

\* graph[v]: the TVertex variant stored at a descriptor
TVertexOf(t, v) ==
    IF v < t.num_nodes THEN [kind |-> "TNode", node |-> v]
    ELSE IF v < t.num_nodes + t.num_phases * t.num_nodes
    THEN LET i == v - t.num_nodes
         IN [kind |-> "TPhaseNode", phase |-> i \div t.num_nodes, node |-> i % t.num_nodes]
    ELSE LET i == v - t.num_nodes - t.num_phases * t.num_nodes
         IN [kind |-> "TPort", phase |-> i \div t.num_ports, port |-> i % t.num_ports]

-----------------------------------------------------------------------------
(* TemporalGraph (temporal_graph.cpp): the edges in the order add_edge is   *)
(* called, each [src, dst, time, hop, delay].                               *)

\* first loop of createTransfers: PhasePort(ph,p) -> PhaseNode(ph+1, target)
TransferEdges(t) ==
    [k \in 1..(t.num_phases * t.num_ports) |->
        LET phase == (k - 1) \div t.num_ports
            port  == (k - 1) % t.num_ports
            target == TopoAt(t, phase, port)
            arrivePhase == phaseAdd(t, phase, 1)
        IN [src |-> vPP(t, ppIndex(t, phase, port)),
            dst |-> vPN(t, pnIndex(t, arrivePhase, target)),
            time |-> 1, hop |-> 1, delay |-> 0]]

\* second loop of createTransfers: PhaseNode(ph, owner) -> PhasePort(ph+w, p), w = 1..P
EnqueueEdges(t) ==
    [k \in 1..(t.num_phases * t.num_ports * t.num_phases) |->
        LET phase == (k - 1) \div (t.num_ports * t.num_phases)
            port  == ((k - 1) \div t.num_phases) % t.num_ports
            waitTime == ((k - 1) % t.num_phases) + 1
            owner == t.portOwner[port]
            targetPhase == phaseAdd(t, phase, waitTime)
        IN [src |-> vPN(t, pnIndex(t, phase, owner)),
            dst |-> vPP(t, ppIndex(t, targetPhase, port)),
            time |-> waitTime, hop |-> 0, delay |-> 1]]

\* createCollectorNodeEdges: PhaseNode(ph, n) -> Node(n)
CollectorEdges(t) ==
    [k \in 1..(t.num_phases * t.num_nodes) |->
        LET phase == (k - 1) \div t.num_nodes
            node  == (k - 1) % t.num_nodes
        IN [src |-> vPN(t, pnIndex(t, phase, node)),
            dst |-> vNodes(t, nIndex(t, node)),
            time |-> 0, hop |-> 0, delay |-> 0]]

\* TemporalGraph::TemporalGraph: createVertices, createWaits (no edges),
\* createTransfers, createCollectorNodeEdges
GraphEdges(t) == TransferEdges(t) \o EnqueueEdges(t) \o CollectorEdges(t)

\* out_edges(v, g) and in_edges(v, g): vecS edge lists keep insertion order
OutEdges(E, v) == SelectSeq(E, LAMBDA e : e.src = v)
InEdges(E, v)  == SelectSeq(E, LAMBDA e : e.dst = v)

-----------------------------------------------------------------------------
(* Edge cost under the policy (the edgeCost / wmap lambdas) *)

edgeCost(approach, edge) ==
    IF approach = "fewest_hops"
    THEN 10000 * edge.hop + edge.time
    ELSE 10000 * edge.time + edge.hop

-----------------------------------------------------------------------------
(* boost::dijkstra_shortest_paths on the reversed graph.  The queue is the *)
(* 4-ary indirect heap of the library; its order decides which of several  *)
(* equally short predecessors ends up in the predecessor map.              *)

\* std::numeric_limits<int>::max(), the distance of a vertex never reached
IntMax == 2147483647

HeapArity == 4

\* n copies of x as a tuple; arrays over vertices are tuples indexed by v + 1
RECURSIVE Fill(_, _)
Fill(n, x) == IF n = 0 THEN <<>> ELSE Append(Fill(n - 1, x), x)

\* swap positions i and j of tuple h
Swap(h, i, j) ==
    LET a == h[i]
        b == h[j]
    IN [[h EXCEPT ![i] = b] EXCEPT ![j] = a]

\* d_ary_heap_indirect::preserve_heap_property_up, heap h 1-based, element at i
RECURSIVE HeapUp(_, _, _)
HeapUp(h, d, i) ==
    IF i = 1 THEN h
    ELSE LET parent == ((i - 2) \div HeapArity) + 1
         IN IF d[h[i] + 1] < d[h[parent] + 1]
            THEN HeapUp(Swap(h, i, parent), d, parent)
            ELSE h

\* the first smallest child among positions j..hi, best so far at position best
RECURSIVE SmallestChild(_, _, _, _, _)
SmallestChild(h, d, best, j, hi) ==
    IF j > hi THEN best
    ELSE SmallestChild(h, d, IF d[h[j] + 1] < d[h[best] + 1] THEN j ELSE best, j + 1, hi)

\* d_ary_heap_indirect::preserve_heap_property_down from position i
RECURSIVE HeapDown(_, _, _)
HeapDown(h, d, i) ==
    LET first == HeapArity * (i - 1) + 2
    IN IF first > Len(h) THEN h
       ELSE LET last == Min2(first + HeapArity - 1, Len(h))
                c == SmallestChild(h, d, first, first + 1, last)
            IN IF d[h[c] + 1] < d[h[i] + 1]
               THEN HeapDown(Swap(h, i, c), d, c)
               ELSE h

\* d_ary_heap_indirect::push
HeapPush(h, d, v) == HeapUp(Append(h, v), d, Len(h) + 1)

\* d_ary_heap_indirect::pop: the last element replaces the top and sinks
HeapPop(h, d) ==
    IF Len(h) = 1 THEN <<>>
    ELSE HeapDown(<<h[Len(h)]>> \o SubSeq(h, 2, Len(h) - 1), d, 1)

HeapIndex(h, v) == CHOOSE k \in 1..Len(h) : h[k] = v

\* examine the k-th out-edge of u in the reversed graph (an in-edge of u)
RECURSIVE DijkstraEdges(_, _, _, _, _)
DijkstraEdges(st, approach, u, es, k) ==
    IF k > Len(es) THEN st
    ELSE LET v == es[k].src
             nd == st.d[u + 1] + edgeCost(approach, es[k])
             next ==
                IF st.color[v + 1] = "white"
                THEN \* tree_edge: relax, then discover_vertex pushes v
                     LET d1 == IF nd < st.d[v + 1] THEN [st.d EXCEPT ![v + 1] = nd] ELSE st.d
                         p1 == IF nd < st.d[v + 1] THEN [st.p EXCEPT ![v + 1] = u] ELSE st.p
                     IN [d |-> d1, p |-> p1,
                         color |-> [st.color EXCEPT ![v + 1] = "gray"],
                         Q |-> HeapPush(st.Q, d1, v)]
                ELSE IF st.color[v + 1] = "gray" /\ nd < st.d[v + 1]
                THEN \* gray_target: relax, then Q.update(v)
                     LET d1 == [st.d EXCEPT ![v + 1] = nd]
                     IN [d |-> d1, p |-> [st.p EXCEPT ![v + 1] = u],
                         color |-> st.color,
                         Q |-> HeapUp(st.Q, d1, HeapIndex(st.Q, v))]
                ELSE st
         IN DijkstraEdges(next, approach, u, es, k + 1)

\* finish_vertex: u turns black
Finish(st, u) ==
    [d |-> st.d, p |-> st.p, color |-> [st.color EXCEPT ![u + 1] = "black"],
     Q |-> st.Q]

\* the main loop: pop the top of the queue, examine its edges
RECURSIVE DijkstraLoop(_, _, _)
DijkstraLoop(st, approach, inE) ==
    IF st.Q = <<>> THEN st
    ELSE LET u == st.Q[1]
             popped == [d |-> st.d, p |-> st.p, color |-> st.color,
                        Q |-> HeapPop(st.Q, st.d)]
         IN DijkstraLoop(Finish(DijkstraEdges(popped, approach, u, inE[u], 1), u),
                         approach, inE)

\* the identity predecessor map p[v] = v as a tuple
RECURSIVE Iota(_)
Iota(n) == IF n = 0 THEN <<>> ELSE Append(Iota(n - 1), n - 1)

\* the distance and predecessor arrays as functions of the vertex
Maps(t, fin) ==
    [d |-> [v \in Vertices(t) |-> fin.d[v + 1]],
     p |-> [v \in Vertices(t) |-> fin.p[v + 1]]]

\* dijkstra_shortest_paths(make_reverse_graph(graph), destVertex, ...):
\* the distance map d and the predecessor map p, as functions of the vertex
Dijkstra(t, destVertex, approach) ==
    LET E == GraphEdges(t)
        inE == [v \in Vertices(t) |-> InEdges(E, v)]
        n == NumVertices(t)
        init == [d |-> [Fill(n, IntMax) EXCEPT ![destVertex + 1] = 0],
                 p |-> Iota(n),
                 color |-> [Fill(n, "white") EXCEPT ![destVertex + 1] = "gray"],
                 Q |-> <<destVertex>>]
    IN Maps(t, DijkstraLoop(init, approach, inE))

-----------------------------------------------------------------------------
(* Router: constructSolutionForEgress (rnd_choice) and                      *)
(* constructSolutionForFlow (capacity) are the same algorithm.              *)

\* int + int as the build computes it when the sum exceeds INT_MAX: two's
\* complement wrap-around (a trapping build aborts instead, see SetupTraps)
IntAdd(a, b) ==
    IF b > 0 /\ a > IntMax - b THEN ((a - IntMax) + (b - IntMax)) - 2 ELSE a + b

\* the neighbours vector: every out-edge of PhaseNode(phase,node) that ends in a
\* TPort, with cost = edgeCost(edge) + d[target], in out_edges order
Neighbours(t, E, approach, d, phase, node) ==
    LET out == OutEdges(E, vPN(t, pnIndex(t, phase, node)))
        toPort == SelectSeq(out, LAMBDA e : TVertexOf(t, e.dst).kind = "TPort")
    IN [k \in 1..Len(toPort) |->
          [port  |-> TVertexOf(t, toPort[k].dst).port,
           phase |-> TVertexOf(t, toPort[k].dst).phase,
           cost  |-> IntAdd(edgeCost(approach, toPort[k]), d[toPort[k].dst])]]

\* std::stable_sort by a.second < b.second: equal costs keep their order
RECURSIVE StableInsert(_, _)
StableInsert(sorted, x) ==
    IF sorted = <<>> THEN <<x>>
    ELSE IF x.cost < sorted[Len(sorted)].cost
         THEN Append(StableInsert(SubSeq(sorted, 1, Len(sorted) - 1), x), sorted[Len(sorted)])
         ELSE Append(sorted, x)

RECURSIVE StableSort(_)
StableSort(s) ==
    IF s = <<>> THEN <<>>
    ELSE StableInsert(StableSort(SubSeq(s, 1, Len(s) - 1)), s[Len(s)])

\* a selection that takes the numPaths cheapest neighbours, ports repeated or not
TakeBest_any(sorted, i, options, numPaths) ==
    [k \in 1..Min2(Len(sorted), numPaths) |->
        [port |-> sorted[k].port, phase |-> sorted[k].phase]]

\* "Take the k best but don't reuse same port": walk the sorted neighbours
RECURSIVE TakeBest(_, _, _, _)
TakeBest(sorted, i, options, numPaths) ==
    IF i > Len(sorted) THEN options
    ELSE IF \E k \in 1..Len(options) : options[k].port = sorted[i].port
         THEN TakeBest(sorted, i + 1, options, numPaths)
         ELSE LET o == Append(options, [port |-> sorted[i].port, phase |-> sorted[i].phase])
              IN IF Len(o) >= numPaths THEN o
                 ELSE TakeBest(sorted, i + 1, o, numPaths)

\* keys of sol_: NodeInPhase{node, phase}
NodeInPhaseKeys(t) == Nodes(t) \X Phases(t)

\* constructSolutionForEgress: sol_ for one egress node
constructSolutionForEgress(t, egress_node, prm) ==
    LET E == GraphEdges(t)
        dj == Dijkstra(t, vNodes(t, egress_node), prm.approach)
    IN [key \in NodeInPhaseKeys(t) |->
          TakeBest(StableSort(Neighbours(t, E, prm.approach, dj.d, key[2], key[1])),
                   1, <<>>, prm.numPaths)]

\* constructSolutionForFlow: the same for network.flows[flow].egress
constructSolutionForFlow(t, flow, prm) ==
    constructSolutionForEgress(t, t.flows[flow].egress, prm)

\* constructSolutions: one solution per flow (rnd_choice shares the solution of
\* an egress between the flows that have it, capacity recomputes it per flow)
constructSolutions(t, prm) ==
    [flow \in Flows(t) |-> constructSolutionForFlow(t, flow, prm)]

\* cost = edgeCost + d[vNext] overflows for some candidate of some egress in use
RouterOverflows(t, prm) ==
    \E flow \in Flows(t) :
        LET E == GraphEdges(t)
            dj == Dijkstra(t, vNodes(t, t.flows[flow].egress), prm.approach)
        IN \E key \in NodeInPhaseKeys(t) :
             \E k \in 1..Len(OutEdges(E, vPN(t, pnIndex(t, key[2], key[1])))) :
                LET e == OutEdges(E, vPN(t, pnIndex(t, key[2], key[1])))[k]
                IN TVertexOf(t, e.dst).kind = "TPort" /\ dj.d[e.dst] = IntMax

-----------------------------------------------------------------------------
(* fixed scheduler: computeToDestination and the choice cache *)

\* a findOwnedPort that does not search: always port 0
findOwnedPort_port0(t, owner) == 0

\* findOwnedPort: the first port of the owner, 0 when it owns none
findOwnedPort(t, owner) ==
    IF \E i \in Ports(t) : t.portOwner[i] = owner
    THEN CHOOSE i \in Ports(t) :
            /\ t.portOwner[i] = owner
            /\ \A j \in Ports(t) : t.portOwner[j] = owner => i <= j
    ELSE 0

\* a loop body that never looks at the predecessor: always the default
FixedEntry_default(t, p, i, from_node) ==
    [port |-> findOwnedPort(t, from_node), phase |-> phaseAdd(t, i, 1)]

\* the loop body of computeToDestination for (i, from_node): the cached choice,
\* or NoChoice when the predecessor is a TPhaseNode (the assert fails; without
\* asserts the skipping loop never ends because p[next] = next)
FixedEntry(t, p, i, from_node) ==
    LET currentVertex == vPN(t, pnIndex(t, i, from_node))
        next == TVertexOf(t, p[currentVertex])
    IN IF next.kind = "TPhaseNode" THEN NoChoice
       ELSE IF next.kind = "TPort" THEN [port |-> next.port, phase |-> next.phase]
       ELSE [port |-> findOwnedPort(t, from_node), phase |-> phaseAdd(t, i, 1)]

\* the result of computeToDestination for the entries it would write
Computed(entries) ==
    [ok |-> \A key \in DOMAIN entries : entries[key] # NoChoice,
     entries |-> entries]

\* computeToDestination: the entries written for a destination, keyed
\* <<phase, node, destination>>; ok is false when the call does not return
computeToDestination(t, destination, approach) ==
    LET dj == Dijkstra(t, vNodes(t, destination), approach)
    IN Computed(Stored([key \in (Phases(t) \X Nodes(t) \X {destination}) |->
                           FixedEntry(t, dj.p, key[1], key[2])]))

-----------------------------------------------------------------------------
(* rnd_choice: hash_bounded on unsigned 32/64-bit values.  A uint32_t is a  *)
(* pair <<high 16 bits, low 16 bits>>, a uint64_t a tuple of 8 bytes, least *)
(* significant first, so that no intermediate exceeds the checker's ints.   *)

RECURSIVE Xor(_, _)
\* bitwise exclusive or of two naturals
Xor(a, b) ==
    IF a = 0 THEN b
    ELSE IF b = 0 THEN a
    ELSE 2 * Xor(a \div 2, b \div 2) + (((a % 2) + (b % 2)) % 2)

\* constexpr uint64_t a = 0x28ec0f222c79fb46
HashA == <<70, 251, 121, 44, 34, 15, 236, 40>>
\* constexpr uint64_t b = 0x2179c594b7d54ca2
HashB == <<162, 76, 213, 183, 148, 197, 121, 33>>

\* the 4 bytes of a uint32_t, least significant first
Bytes32(x) == <<x[2] % 256, x[2] \div 256, x[1] % 256, x[1] \div 256>>

\* column k (1..8) of the schoolbook product a * x, plus byte k of b
HashColumn(xb, k) ==
    HashB[k]
    + (IF k >= 1 /\ k <= 8 THEN HashA[k] * xb[1] ELSE 0)
    + (IF k >= 2 /\ k <= 9 THEN HashA[k - 1] * xb[2] ELSE 0)
    + (IF k >= 3 /\ k <= 10 THEN HashA[k - 2] * xb[3] ELSE 0)
    + (IF k >= 4 /\ k <= 11 THEN HashA[k - 3] * xb[4] ELSE 0)

RECURSIVE HashCarry(_, _)
\* the carry into column k of (a * x + b) mod 2^64
HashCarry(xb, k) ==
    IF k = 1 THEN 0
    ELSE (HashColumn(xb, k - 1) + HashCarry(xb, k - 1)) \div 256

\* byte k (1..8) of (a * x + b) mod 2^64
HashByte(xb, k) == (HashColumn(xb, k) + HashCarry(xb, k)) % 256

\* a hash_bounded whose last shift is by 31 bits
hash_bounded_shift31(x, m) ==
    LET xb == Bytes32(x)
        hi == HashByte(xb, 8) * 256 + HashByte(xb, 7)
        lo == HashByte(xb, 6) * 256 + HashByte(xb, 5)
    IN (hi * m + ((lo * m) \div 65536)) \div 32768

\* hash_bounded(x, m) = ((((a * x + b) mod 2^64) >> 32) * m) >> 32
hash_bounded(x, m) ==
    LET xb == Bytes32(x)
        hi == HashByte(xb, 8) * 256 + HashByte(xb, 7)
        lo == HashByte(xb, 6) * 256 + HashByte(xb, 5)
    IN (hi * m + ((lo * m) \div 65536)) \div 65536

\* ((phase << 16) + node) ^ random_num
HashInput(phase, node, r) == <<Xor(phase, r[1]), Xor(node, r[2])>>

\* std::mt19937 output sequences: the first draws after seeding with 123456
\* (customBegin) and with the default seed 5489 (the static random_gen)
MT123456 ==
    << <<8321, 6209>>, <<33745, 23274>>, <<63354, 53746>>, <<58859, 35889>>,
       <<17070, 36408>>, <<46256, 41131>>, <<58801, 19183>>, <<51041, 25131>>,
       <<24690, 43867>>, <<61054, 53280>>, <<22034, 41175>>, <<41206, 58020>> >>
MT5489 ==
    << <<53393, 47964>>, <<8878, 40694>>, <<59361, 64238>>, <<54723, 8057>>,
       <<8322, 13612>>, <<63495, 47071>>, <<59859, 5>>, <<14485, 45025>>,
       <<41442, 19386>>, <<20196, 2347>>, <<6392, 26723>>, <<35862, 42533>> >>

\* random_gen(): the next output of the generator state [seed, n]
MTNext(gen) == IF gen.seed = 123456 THEN MT123456[gen.n + 1] ELSE MT5489[gen.n + 1]

-----------------------------------------------------------------------------
(* Buffers and PortLoad (ext.hpp).  A buffer array maps <<phase, port,      *)
(* flow>> to a packet count.                                                *)

RECURSIVE SumFn(_, _)
\* the sum of g[x] over the finite set S
SumFn(g, S) ==
    IF S = {} THEN 0
    ELSE LET x == CHOOSE y \in S : TRUE
         IN g[x] + SumFn(g, S \ {x})

BufferKeys(t) == Phases(t) \X Ports(t) \X Flows(t)

\* Buffers::fill(0)
ZeroBuffers(t) == [k \in BufferKeys(t) |-> 0]

\* Buffers::operator(): the index of (phase, port, flow) in values_
BufferIndex(t, phase, port, flow) ==
    phase * t.num_ports * t.num_flows + port * t.num_flows + flow

\* a pushBuffers that computes start without the factor flows_ of the phase
Buffers_pushBuffers_stride(t, bufs, phase, port, data) ==
    LET start == phase * t.num_ports + port * t.num_flows
    IN [k \in BufferKeys(t) |->
           IF /\ start <= BufferIndex(t, k[1], k[2], k[3])
              /\ BufferIndex(t, k[1], k[2], k[3]) < start + t.num_flows
           THEN data[BufferIndex(t, k[1], k[2], k[3]) - start]
           ELSE bufs[k]]

\* Buffers::pushBuffers: std::copy of the flows_ values of data to
\* values_[start ..]; bufs is values_ read through operator()
Buffers_pushBuffers(t, bufs, phase, port, data) ==
    LET start == phase * t.num_ports * t.num_flows + port * t.num_flows
    IN [k \in BufferKeys(t) |->
           IF /\ start <= BufferIndex(t, k[1], k[2], k[3])
              /\ BufferIndex(t, k[1], k[2], k[3]) < start + t.num_flows
           THEN data[BufferIndex(t, k[1], k[2], k[3]) - start]
           ELSE bufs[k]]

\* pushBuffers() of the simulator from its n-th call of extPushBuffers on:
\* the loops run over the phases and, for each phase, over the ports, with
\* the row gPortBuffers[phase][port] as data
RECURSIVE pushRows(_, _, _, _)
pushRows(t, bufs, gbuf, n) ==
    IF n = t.num_phases * t.num_ports THEN bufs
    ELSE pushRows(t,
             Buffers_pushBuffers(t, bufs, n \div t.num_ports, n % t.num_ports,
                 [f \in Flows(t) |->
                     gbuf[<<n \div t.num_ports, n % t.num_ports, f>>]]),
             gbuf, n + 1)

\* a pushBuffers() that pushes nothing
pushBuffers_none(t, bufs, gbuf) == bufs

\* pushBuffers() of the simulator
pushBuffers(t, bufs, gbuf) == pushRows(t, bufs, gbuf, 0)

\* PortLoad::getPackets
getPackets(t, bufs, port, phase) ==
    SumFn([f \in Flows(t) |-> bufs[<<phase, port, f>>]], Flows(t))

\* a getTotalPackets that counts the packets of phase 0 only
getTotalPackets_phase0(t, bufs, port) == getPackets(t, bufs, port, 0)

\* PortLoad::getTotalPackets
getTotalPackets(t, bufs, port) ==
    SumFn([phase \in Phases(t) |-> getPackets(t, bufs, port, phase)], Phases(t))

\* loads.getTotalPortLoad(port) < treshold.  The load is the sum over the phases
\* of getPackets / capacity; with the capacities of the scenarios (powers of
\* two) every quotient and the sum are exact doubles, so the comparison is the
\* comparison of the rationals, treshold = num / den.
LoadBelowTreshold(t, bufs, port, treshold) ==
    getTotalPackets(t, bufs, port) * treshold.den < treshold.num * t.capacities[port]

\* extGetPacketsInNetwork
extGetPacketsInNetwork(t, bufs) == SumFn(bufs, BufferKeys(t))

-----------------------------------------------------------------------------
(* customGetScheduleChoice of the three schedulers.  NoChoice stands for a  *)
(* call that does not return (failed assert, crash).                        *)

\* EgressSolution::getChoice (rnd_choice)
EgressSolution_getChoice(sol, phase, node, rnum) ==
    LET cpy == sol[<<node, phase>>]
    IN IF Len(cpy) = 0 THEN NoChoice      \* assert(cpy.size() > 0)
       ELSE cpy[hash_bounded(HashInput(phase, node, rnum), Len(cpy)) + 1]

\* std::find_if over the candidates: the first one whose port load is below
RECURSIVE FindBelow(_, _, _, _, _)
FindBelow(t, cpy, k, bufs, treshold) ==
    IF k > Len(cpy) THEN 0
    ELSE IF LoadBelowTreshold(t, bufs, cpy[k].port, treshold) THEN k
    ELSE FindBelow(t, cpy, k + 1, bufs, treshold)

\* a getChoice that falls back to the last candidate
FlowSolution_getChoice_last(t, sol, phase, node, bufs, treshold) ==
    LET cpy == sol[<<node, phase>>]
        choice == FindBelow(t, cpy, 1, bufs, treshold)
    IN IF Len(cpy) = 0 THEN NoChoice
       ELSE IF choice = 0 THEN cpy[Len(cpy)] ELSE cpy[choice]

\* FlowSolution::getChoice (capacity); cpy[0] of an empty vector reads through a
\* null pointer
FlowSolution_getChoice(t, sol, phase, node, bufs, treshold) ==
    LET cpy == sol[<<node, phase>>]
        choice == FindBelow(t, cpy, 1, bufs, treshold)
    IN IF Len(cpy) = 0 THEN NoChoice
       ELSE IF choice = 0 THEN cpy[1] ELSE cpy[choice]

\* the entry for key of a computeToDestination that returned
EntryOf(computed, key) == IF computed.ok THEN computed.entries[key] ELSE NoChoice

\* cachedChoice (fixed): the entry of the cache, computed on a miss; a miss
\* whose computeToDestination fails an assert does not return
cachedChoice(t, cache, approach, phase_i, from_node, flow) ==
    LET egress == t.flows[flow].egress
        key == <<phase_i, from_node, egress>>
    IN IF key \in DOMAIN cache THEN cache[key]
       ELSE EntryOf(computeToDestination(t, egress, approach), key)

\* the cache after computeToDestination stored its entries for the egress
\* nodes of the set es
RECURSIVE CacheWith(_, _, _, _)
CacheWith(t, cache, approach, es) ==
    IF es = {} THEN cache
    ELSE LET e == CHOOSE x \in es : TRUE
             computed == computeToDestination(t, e, approach).entries
         IN CacheWith(t, computed @@ cache, approach, es \ {e})

\* the egress nodes of the flows fs that miss in the cache
CacheMisses(t, cache, fs) ==
    {t.flows[f].egress : f \in fs} \ {key[3] : key \in DOMAIN cache}

\* a miss that empties the cache before it stores the entries of its egress
CacheAfter_fresh(t, cache, approach, fs) ==
    IF CacheMisses(t, cache, fs) = {} THEN cache
    ELSE CacheWith(t, << >>, approach, CacheMisses(t, cache, fs))

\* the cache after cachedChoice was called for the flows of the set fs
CacheAfter(t, cache, approach, fs) ==
    CacheWith(t, cache, approach, CacheMisses(t, cache, fs))

\* some cachedChoice call for a flow of fs does not return
CacheFails(t, cache, approach, fs) ==
    \E e \in CacheMisses(t, cache, fs) : ~computeToDestination(t, e, approach).ok

\* a customGetScheduleChoice whose rnd_choice variant mixes the flow into the
\* hashed random number
customGetScheduleChoice_flowHash(x, t, prm, sols, sch, phase_i, node, flow) ==
    IF x = "fixed"
    THEN cachedChoice(t, sch.cache, prm.approach, phase_i, node, flow)
    ELSE IF x = "rnd_choice"
    THEN EgressSolution_getChoice(sols[flow], phase_i, node,
                                  <<sch.random_num[1], Xor(sch.random_num[2], flow)>>)
    ELSE FlowSolution_getChoice(t, sols[flow], phase_i, node, sch.buffers,
                                prm.alternativeTreshold)

\* customGetScheduleChoice of the linked scheduler; sch holds what the
\* schedulers read: the cache, random_num and network.buffers
customGetScheduleChoice(x, t, prm, sols, sch, phase_i, node, flow) ==
    IF x = "fixed"
    THEN cachedChoice(t, sch.cache, prm.approach, phase_i, node, flow)
    ELSE IF x = "rnd_choice"
    THEN EgressSolution_getChoice(sols[flow], phase_i, node, sch.random_num)
    ELSE FlowSolution_getChoice(t, sols[flow], phase_i, node, sch.buffers,
                                prm.alternativeTreshold)

-----------------------------------------------------------------------------
(* The simulator (model_declarations.c).  A process state s is the record   *)
(* of the scheduler's and the simulator's mutable globals; c is the         *)
(* configuration fixed by __ON_CONSTRUCT__.                                 *)

\* the configuration of the running process
Cfg == [ext |-> ext, build |-> build, network |-> network, params |-> params,
        toggle |-> toggle, pSolutions |-> pSolutions]

\* the mutable globals of the running process
Proc == [buffers |-> buffers, pChoiceCache |-> pChoiceCache,
         random_gen |-> random_gen, random_num |-> random_num,
         gPortBuffers |-> gPortBuffers, gCurrentPhase |-> gCurrentPhase,
         gDidOverflow |-> gDidOverflow, gPortSent |-> gPortSent,
         maxSendFromPortInPhase |-> maxSendFromPortInPhase]

\* what customGetScheduleChoice reads of a process state
Sched(s) == [cache |-> s.pChoiceCache, random_num |-> s.random_num,
             buffers |-> s.buffers]

\* getChoice
getChoice(c, s, phase, node, flow) ==
    customGetScheduleChoice(c.ext, c.network, c.params, c.pSolutions, Sched(s),
                            phase, node, flow)

\* customPrepareChoices: rnd_choice draws random_num, the others do nothing
customPrepareChoices(c, s) ==
    IF c.ext = "rnd_choice"
    THEN [buffers |-> s.buffers, pChoiceCache |-> s.pChoiceCache,
          random_gen |-> [seed |-> s.random_gen.seed, n |-> s.random_gen.n + 1],
          random_num |-> MTNext(s.random_gen),
          gPortBuffers |-> s.gPortBuffers, gCurrentPhase |-> s.gCurrentPhase,
          gDidOverflow |-> s.gDidOverflow, gPortSent |-> s.gPortSent,
          maxSendFromPortInPhase |-> s.maxSendFromPortInPhase]
    ELSE s

\* the cache once cachedChoice has answered for the flows fs (other schedulers
\* have no cache)
cacheFilled(c, s, fs) ==
    IF c.ext = "fixed"
    THEN CacheAfter(c.network, s.pChoiceCache, c.params.approach, fs)
    ELSE s.pChoiceCache

\* portBuffered
portBuffered(t, buf, i, p) ==
    SumFn([f \in Flows(t) |-> buf[<<i, p, f>>]], Flows(t))

\* totalPortBuffered
totalPortBuffered(t, buf, p) ==
    SumFn([i \in Phases(t) |-> portBuffered(t, buf, i, p)], Phases(t))

\* totalPacketsBuffered
totalPacketsBuffered(t, buf) ==
    SumFn([p \in Ports(t) |-> totalPortBuffered(t, buf, p)], Ports(t))

\* the (dFlow, dPacketsToSend, dTotal) with dTotal <= MaxTotal for which the
\* double product dFlow * (dPacketsToSend / dTotal) lies just below an exact
\* half, so that round() gives one less than rounding the exact quotient
RoundExceptions ==
    { <<11, 15, 22>>, <<13, 15, 26>>, <<22, 15, 44>>, <<11, 30, 44>>,
      <<23, 13, 46>>, <<25, 29, 50>>, <<45, 35, 50>>, <<26, 15, 52>>,
      <<13, 30, 52>>, <<39, 30, 52>>, <<42, 34, 56>>, <<29, 31, 58>>,
      <<45, 42, 60>> }

\* a share that is not scaled by the flow: every flow sends what the port sends
RoundShare_whole(dFlow, dPacketsToSend, dTotal) == dPacketsToSend

\* fint(round(dFlow * (dPacketsToSend / dTotal))) for 0 <= dFlow <= dTotal and
\* 0 <= dPacketsToSend <= dTotal: round() rounds halves away from zero
RoundShare(dFlow, dPacketsToSend, dTotal) ==
    IF dPacketsToSend = dTotal THEN dFlow
    ELSE IF <<dFlow, dPacketsToSend, dTotal>> \in RoundExceptions
    THEN ((2 * dFlow * dPacketsToSend + dTotal) \div (2 * dTotal)) - 1
    ELSE (2 * dFlow * dPacketsToSend + dTotal) \div (2 * dTotal)

\* sending
sending(t, buf, i, p, f) ==
    LET totalBuffered == portBuffered(t, buf, i, p)
    IN IF totalBuffered = 0 THEN 0
       ELSE RoundShare(buf[<<i, p, f>>], Min2(t.bandwidths[p], totalBuffered),
                       totalBuffered)

\* a validPortState that tolerates one packet above the capacity
validPortState_slack(t, buf, p) == totalPortBuffered(t, buf, p) <= t.capacities[p] + 1

\* validPortState
validPortState(t, buf, p) == totalPortBuffered(t, buf, p) <= t.capacities[p]

\* an updateValidState that reports the current step only
updateValidState_last(t, buf, didOverflow) ==
    \E p \in Ports(t) : ~validPortState(t, buf, p)

\* updateValidState: the new value of gDidOverflow
updateValidState(t, buf, didOverflow) ==
    IF \E p \in Ports(t) : ~validPortState(t, buf, p) THEN TRUE ELSE didOverflow

\* a nextPhase that tests for the last phase before it increments
nextPhase_late(t, phase) == IF phase = t.num_phases THEN 0 ELSE phase + 1

\* nextPhase: the new value of gCurrentPhase
nextPhase(t, phase) == IF phase + 1 = t.num_phases THEN 0 ELSE phase + 1

\* a reschedule that adds the packets to the chosen bucket and leaves them in
\* the bucket they came from
rescheduled_copy(t, buf, phase, choice) ==
    LET movedTo(j, p, f) ==
            {port \in Ports(t) : choice[<<port, f>>] = [port |-> p, phase |-> j]}
    IN [ok |-> \A k \in DOMAIN choice :
                  /\ choice[k] # NoChoice
                  /\ t.portOwner[choice[k].port] = t.portOwner[k[1]],
        buf |-> Stored([k \in BufferKeys(t) |->
                   buf[k]
                   + SumFn([port \in Ports(t) |-> buf[<<phase, port, k[3]>>]],
                           movedTo(k[1], k[2], k[3]))])]

\* a reschedule that empties the buckets of the port in every phase
rescheduled_allPhases(t, buf, phase, choice) ==
    LET movedTo(j, p, f) ==
            {port \in Ports(t) : choice[<<port, f>>] = [port |-> p, phase |-> j]}
    IN [ok |-> \A k \in DOMAIN choice :
                  /\ choice[k] # NoChoice
                  /\ t.portOwner[choice[k].port] = t.portOwner[k[1]],
        buf |-> Stored([k \in BufferKeys(t) |->
                   buf[k]
                   + (SumFn([port \in Ports(t) |-> buf[<<phase, port, k[3]>>]],
                            movedTo(k[1], k[2], k[3]))
                      - buf[k])])]

\* the buffers after reschedule(phase) moved every bucket of the phase to the
\* bucket chosen for it; ok is false when a choice did not return or the
\* assert on the owner of the chosen port fails
rescheduled(t, buf, phase, choice) ==
    LET movedTo(j, p, f) ==
            {port \in Ports(t) : choice[<<port, f>>] = [port |-> p, phase |-> j]}
    IN [ok |-> \A k \in DOMAIN choice :
                  /\ choice[k] # NoChoice
                  /\ t.portOwner[choice[k].port] = t.portOwner[k[1]],
        buf |-> Stored([k \in BufferKeys(t) |->
                   buf[k]
                   + (SumFn([port \in Ports(t) |-> buf[<<phase, port, k[3]>>]],
                            movedTo(k[1], k[2], k[3]))
                      - (IF k[1] = phase THEN buf[k] ELSE 0))])]

\* reschedule(phase) on the buffers buf
reschedule(c, s, buf, phase) ==
    rescheduled(c.network, buf, phase,
                Stored([k \in Ports(c.network) \X Flows(c.network) |->
                    getChoice(c, s, phase, c.network.portOwner[k[1]], k[2])]))

\* the schedule toggle: reschedule for the phases of ps in ascending order,
\* cur is the result so far
RECURSIVE rescheduleAll(_, _, _, _)
rescheduleAll(c, s, cur, ps) ==
    IF ps = <<>> \/ ~cur.ok THEN cur
    ELSE rescheduleAll(c, s, reschedule(c, s, cur.buf, Head(ps)), Tail(ps))

\* a process state with its cache replaced
withCache(s, cache) ==
    [buffers |-> s.buffers, pChoiceCache |-> cache,
     random_gen |-> s.random_gen, random_num |-> s.random_num,
     gPortBuffers |-> s.gPortBuffers, gCurrentPhase |-> s.gCurrentPhase,
     gDidOverflow |-> s.gDidOverflow, gPortSent |-> s.gPortSent,
     maxSendFromPortInPhase |-> s.maxSendFromPortInPhase]

\* the largest element of a non-empty set of integers
MaxOf(S) == CHOOSE x \in S : \A y \in S : y <= x

\* simulatePhase stopped by a getChoice call or an assert
stopped(s) == [ok |-> FALSE, proc |-> s, last |-> [phase |-> s.gCurrentPhase]]

\* the answers getChoice gave during a step, by (phase, node, flow)
answersOf(t, i, recvChoice, ingressChoice) ==
    [k \in {<<i, TopoAt(t, i, q[1]), q[2]>> : q \in DOMAIN recvChoice}
           \cup {<<i, t.flows[f].ingress, f>> : f \in Flows(t)} |->
        IF k[2] = t.flows[k[3]].ingress THEN ingressChoice[k[3]]
        ELSE recvChoice[CHOOSE q \in DOMAIN recvChoice :
                            TopoAt(t, i, q[1]) = k[2] /\ q[2] = k[3]]]

\* simulatePhase, end: updateValidState, nextPhase, pushBuffers
endPhase(c, s, sent, recvChoice, recv, buf1, buf2, ingressChoice, buf3) ==
    LET t == c.network
        i == s.gCurrentPhase
        portSent == Stored([p \in Ports(t) |->
                        SumFn([f \in Flows(t) |-> sent[<<p, f>>]], Flows(t))])
    IN [ok |-> TRUE,
        proc |-> [buffers |-> pushBuffers(t, s.buffers, buf3),
                  pChoiceCache |-> s.pChoiceCache,
                  random_gen |-> s.random_gen,
                  random_num |-> s.random_num,
                  gPortBuffers |-> buf3,
                  gCurrentPhase |-> nextPhase(t, i),
                  gDidOverflow |-> updateValidState(t, buf3, s.gDidOverflow),
                  gPortSent |-> portSent,
                  maxSendFromPortInPhase |->
                      MaxOf({s.maxSendFromPortInPhase} \cup
                            {portSent[p] : p \in Ports(t)})],
        last |-> [phase |-> i, before |-> s.gPortBuffers, sent |-> sent,
                  recv |-> recv, applied |-> buf1, toggled |-> buf2,
                  injected |-> [f \in Flows(t) |-> t.flows[f].amount],
                  final |-> buf3,
                  ingressChoice |-> ingressChoice,
                  answers |-> answersOf(t, i, recvChoice, ingressChoice)]]

\* an "Add ingress" that puts the packets in the chosen port's bucket of the
\* sending phase
ingressAdded_sendingPhase(c, s, sent, recvChoice, recv, buf1, buf2, ingressChoice) ==
    IF \E f \in DOMAIN ingressChoice : ingressChoice[f] = NoChoice THEN stopped(s)
    ELSE endPhase(c, s, sent, recvChoice, recv, buf1, buf2, ingressChoice,
             Stored([k \in BufferKeys(c.network) |->
                 buf2[k] + (IF ingressChoice[k[3]].port = k[2] /\ k[1] = s.gCurrentPhase
                            THEN c.network.flows[k[3]].amount ELSE 0)]))

\* simulatePhase, "Add ingress": the buffers with the flows' amounts added
ingressAdded(c, s, sent, recvChoice, recv, buf1, buf2, ingressChoice) ==
    IF \E f \in DOMAIN ingressChoice : ingressChoice[f] = NoChoice THEN stopped(s)
    ELSE endPhase(c, s, sent, recvChoice, recv, buf1, buf2, ingressChoice,
             Stored([k \in BufferKeys(c.network) |->
                 buf2[k] + (IF ingressChoice[k[3]] = [port |-> k[2], phase |-> k[1]]
                            THEN c.network.flows[k[3]].amount ELSE 0)]))

\* simulatePhase, "Add ingress": the choices for the ingress nodes
addIngress(c, s, sent, recvChoice, recv, buf1, toggled) ==
    IF ~toggled.ok THEN stopped(s)
    ELSE ingressAdded(c, s, sent, recvChoice, recv, buf1, toggled.buf,
             Stored([f \in Flows(c.network) |->
                 getChoice(c, s, s.gCurrentPhase, c.network.flows[f].ingress, f)]))

\* simulatePhase, the schedule toggle on the updated buffers buf1
scheduleToggle(c, s, sent, recvChoice, recv, buf1) ==
    addIngress(c, s, sent, recvChoice, recv, buf1,
               rescheduleAll(c, s, [ok |-> TRUE, buf |-> buf1], Ascending(c.toggle)))

\* an update that adds what was received and forgets to take out what was sent
updateSendRecv_keep(c, s, sent, recvChoice, recv) ==
    scheduleToggle(c, s, sent, recvChoice, recv,
        Stored([k \in BufferKeys(c.network) |-> s.gPortBuffers[k] + recv[k]]))

\* simulatePhase, "Update with send/recv"
updateSendRecv(c, s, sent, recvChoice, recv) ==
    scheduleToggle(c, s, sent, recvChoice, recv,
        Stored([k \in BufferKeys(c.network) |->
            s.gPortBuffers[k]
            + (recv[k] - (IF k[1] = s.gCurrentPhase THEN sent[<<k[2], k[3]>>] ELSE 0))]))

\* simulatePhase, "Calculate received": recv sums what is sent to each bucket
received(c, s, sent, recvChoice) ==
    IF \E k \in DOMAIN recvChoice : recvChoice[k] = NoChoice THEN stopped(s)
    ELSE updateSendRecv(c, s, sent, recvChoice,
             Stored([k \in BufferKeys(c.network) |->
                 SumFn(sent, {q \in DOMAIN recvChoice :
                                 /\ q[2] = k[3]
                                 /\ recvChoice[q] = [port |-> k[2], phase |-> k[1]]})]))

\* a "Calculate received" that also forwards what arrives at the egress node
calculateReceived_all(c, s, sent) ==
    received(c, s, sent,
        Stored([k \in Ports(c.network) \X Flows(c.network) |->
            getChoice(c, s, s.gCurrentPhase,
                      TopoAt(c.network, s.gCurrentPhase, k[1]), k[2])]))

\* simulatePhase, "Calculate received": the choices of the receiving nodes
calculateReceived(c, s, sent) ==
    received(c, s, sent,
        Stored([k \in {q \in Ports(c.network) \X Flows(c.network) :
                          TopoAt(c.network, s.gCurrentPhase, q[1])
                              # c.network.flows[q[2]].egress} |->
            getChoice(c, s, s.gCurrentPhase,
                      TopoAt(c.network, s.gCurrentPhase, k[1]), k[2])]))

\* simulatePhase, "Calculate sent"
calculateSent(c, s) ==
    calculateReceived(c, s,
        Stored([k \in Ports(c.network) \X Flows(c.network) |->
            sending(c.network, s.gPortBuffers, s.gCurrentPhase, k[1], k[2])]))

\* simulatePhase after extPrepareChoices; the fixed scheduler fills its cache at
\* the first getChoice for an egress
prepared(c, sp) ==
    IF c.ext = "fixed"
       /\ CacheFails(c.network, sp.pChoiceCache, c.params.approach, Flows(c.network))
    THEN stopped(sp)
    ELSE calculateSent(c, withCache(sp, cacheFilled(c, sp, Flows(c.network))))

\* simulatePhase on the process state s0.  The result holds ok (false when
\* a getChoice call or an assert stops the process), the new process state
\* and a record of what the step did.
simulatePhase(c, s0) == prepared(c, customPrepareChoices(c, s0))

\* verifyScheduler, the loops: choice holds the answer for every (phase, node,
\* flow); the loops run in the order flow, phase, node up to the first choice
\* that is not owned by the asking node
verifyChoices(c, sp, choice) ==
    LET t == c.network
        rank(f, i, n) == ((f * t.num_phases) + i) * t.num_nodes + n
        bad == {k \in DOMAIN choice :
                   \/ choice[k] = NoChoice
                   \/ t.portOwner[choice[k].port] # k[2]}
        first == CHOOSE k \in bad :
                    \A o \in bad : rank(k[3], k[1], k[2]) <= rank(o[3], o[1], o[2])
        asked == IF bad = {} THEN DOMAIN choice
                 ELSE {k \in DOMAIN choice :
                          rank(k[3], k[1], k[2]) <= rank(first[3], first[1], first[2])}
        outcome == IF bad = {} THEN "true"
                   ELSE IF choice[first] = NoChoice THEN "abort"
                   ELSE "false"
    IN [outcome |-> outcome,
        proc |-> IF outcome = "abort" THEN sp
                 ELSE withCache(sp, cacheFilled(c, sp, {k[3] : k \in asked})),
        answers |-> [k \in {a \in asked : choice[a] # NoChoice} |-> choice[k]]]

\* the flows for which cachedChoice returns
soundFlows(c, sp) ==
    {f \in Flows(c.network) :
        ~CacheFails(c.network, sp.pChoiceCache, c.params.approach, {f})}

\* verifyScheduler after extPrepareChoices
verifyPrepared(c, sp, s) ==
    verifyChoices(c, sp,
        Stored([k \in Phases(c.network) \X Nodes(c.network) \X Flows(c.network) |->
            getChoice(c, s, k[1], k[2], k[3])]))

\* verifyScheduler on the process state s0.  outcome is "true", "false" or
\* "abort" (a getChoice call did not return); answers are the choices that
\* were returned.
verifyScheduler(c, s0) ==
    verifyPrepared(c, customPrepareChoices(c, s0),
        withCache(customPrepareChoices(c, s0),
                  cacheFilled(c, customPrepareChoices(c, s0),
                              soundFlows(c, customPrepareChoices(c, s0)))))

\* a verifyTopology without its second loop
verifyTopology_loops(t) ==
    \A i \in Phases(t) : \A p \in Ports(t) : TopoAt(t, i, p) # t.portOwner[p]

\* verifyTopology
verifyTopology(t) ==
    /\ \A i \in Phases(t) : \A p \in Ports(t) : TopoAt(t, i, p) # t.portOwner[p]
    /\ \A f \in Flows(t) : t.flows[f].ingress # t.flows[f].egress

\* the result of verifyScheduler() && verifyTopology()
andTopology(vs, topologyOk) ==
    [outcome |-> IF vs.outcome = "true" /\ ~topologyOk THEN "false" ELSE vs.outcome,
     proc |-> vs.proc,
     answers |-> vs.answers]

\* verifyConstraints
verifyConstraints(c, s0) ==
    andTopology(verifyScheduler(c, s0), verifyTopology(c.network))

\* a begin whose customBegin leaves the generator as it is
begin_unseeded(c, s0) ==
    [buffers |-> pushBuffers(c.network, ZeroBuffers(c.network),
                             ZeroBuffers(c.network)),
     pChoiceCache |-> s0.pChoiceCache,
     random_gen |-> s0.random_gen,
     random_num |-> s0.random_num,
     gPortBuffers |-> ZeroBuffers(c.network),
     gCurrentPhase |-> 0,
     gDidOverflow |-> FALSE,
     gPortSent |-> [p \in Ports(c.network) |-> 0],
     maxSendFromPortInPhase |-> 0]

\* __ON_BEGIN__ on a process whose simulator state the host has reset to its
\* declared initial values: extBegin (fill(0), customBegin), then pushBuffers
begin(c, s0) ==
    [buffers |-> pushBuffers(c.network, ZeroBuffers(c.network),
                             ZeroBuffers(c.network)),
     pChoiceCache |-> s0.pChoiceCache,
     random_gen |-> IF c.ext = "rnd_choice" THEN [seed |-> 123456, n |-> 0]
                    ELSE s0.random_gen,
     random_num |-> s0.random_num,
     gPortBuffers |-> ZeroBuffers(c.network),
     gCurrentPhase |-> 0,
     gDidOverflow |-> FALSE,
     gPortSent |-> [p \in Ports(c.network) |-> 0],
     maxSendFromPortInPhase |-> 0]

\* the process state after __ON_CONSTRUCT__: zero-initialised globals, a
\* default-constructed std::mt19937, an empty cache
constructed(t) ==
    [buffers |-> ZeroBuffers(t),
     pChoiceCache |-> << >>,
     random_gen |-> [seed |-> 5489, n |-> 0],
     random_num |-> <<0, 0>>,
     gPortBuffers |-> ZeroBuffers(t),
     gCurrentPhase |-> 0,
     gDidOverflow |-> FALSE,
     gPortSent |-> [p \in Ports(t) |-> 0],
     maxSendFromPortInPhase |-> 0]

-----------------------------------------------------------------------------
(* The sampling simulator (model_declarations_sampling.c): the simulator    *)
(* above plus one tagged packet per flow.  q is the record of the sampling  *)
(* globals.                                                                 *)

\* the sampling globals of the running process
Sampler == [gCurrentStep |-> gCurrentStep,
            sampleIntroIndex |-> sampleIntroIndex,
            sampleEntryStep |-> sampleEntryStep,
            samplePortPhasePosition |-> samplePortPhasePosition,
            samplePort |-> samplePort,
            samplePhase |-> samplePhase,
            sampleLatency |-> sampleLatency]

\* the sampling globals as declared: zero-initialised
declaredSampler(t) ==
    [gCurrentStep |-> 0,
     sampleIntroIndex |-> [f \in Flows(t) |-> 0],
     sampleEntryStep |-> [f \in Flows(t) |-> 0],
     samplePortPhasePosition |-> [f \in Flows(t) |-> 0],
     samplePort |-> [f \in Flows(t) |-> 0],
     samplePhase |-> [f \in Flows(t) |-> 0],
     sampleLatency |-> [f \in Flows(t) |-> 0]]

\* setup(): fStepsToStable packets-steps of warm-up per flow
fStepsToStable == 50

\* setup(); jitter[f] is fint(random(70.0)) of flow f, the sum of an integer
\* and a real of [0, 70) truncates to the integer plus the truncated real
setup(t, q, jitter) ==
    [gCurrentStep |-> q.gCurrentStep,
     sampleIntroIndex |-> [f \in Flows(t) |->
                              t.flows[f].amount * fStepsToStable + jitter[f]],
     sampleEntryStep |-> [f \in Flows(t) |-> -1],
     samplePortPhasePosition |-> [f \in Flows(t) |-> -1],
     samplePort |-> q.samplePort,
     samplePhase |-> q.samplePhase,
     sampleLatency |-> [f \in Flows(t) |-> -1]]

\* the tagged packet of f joins the bucket of choice in buf behind rest
\* (a non-positive offset from the end of the queue)
samplePlaced(buf, q, f, choice, rest) ==
    [q EXCEPT !.samplePortPhasePosition[f] =
                  buf[<<choice.phase, choice.port, f>>] + rest,
              !.samplePort[f] = choice.port,
              !.samplePhase[f] = choice.phase]

\* a sampleIngressAdded that places the tagged packet behind the last packet
\* of its bucket
sampleEntered_behind(buf, q, f, choice) ==
    IF q.sampleIntroIndex[f] < 0
    THEN [samplePlaced(buf, q, f, choice, 0)
             EXCEPT !.sampleEntryStep[f] = q.gCurrentStep]
    ELSE q

\* sampleIngressAdded once sampleIntroIndex[f] has been lowered by amount
sampleEntered(buf, q, f, choice) ==
    IF q.sampleIntroIndex[f] < 0
    THEN [samplePlaced(buf, q, f, choice, q.sampleIntroIndex[f])
             EXCEPT !.sampleEntryStep[f] = q.gCurrentStep]
    ELSE q

\* sampleIngressAdded(f, amount); buf holds the buffers after the ingress of
\* f and choice is getChoice(gCurrentPhase, FLOWS[f].ingress, f)
sampleIngressAdded(buf, q, f, amount, choice) ==
    IF q.sampleIntroIndex[f] >= 0
    THEN sampleEntered(buf, [q EXCEPT !.sampleIntroIndex[f] = @ - amount], f, choice)
    ELSE q

\* a samplePortTransfer that takes the latency when the packet leaves its first
\* port, wherever that port leads
sampleLeft_firstHop(c, s, buf, q, i, f, destNode) ==
    IF q.samplePortPhasePosition[f] < 0
    THEN [q EXCEPT !.sampleLatency[f] = q.gCurrentStep - q.sampleEntryStep[f],
                   !.samplePortPhasePosition[f] = -1]
    ELSE q

\* samplePortTransfer once the position has been lowered by the amount sent
sampleLeft(c, s, buf, q, i, f, destNode) ==
    IF q.samplePortPhasePosition[f] < 0
    THEN IF destNode = c.network.flows[f].egress
         THEN [q EXCEPT !.sampleLatency[f] = q.gCurrentStep - q.sampleEntryStep[f],
                        !.samplePortPhasePosition[f] = -1]
         ELSE samplePlaced(buf, q, f, getChoice(c, s, i, destNode, f),
                           q.samplePortPhasePosition[f])
    ELSE q

\* a samplePortTransfer that does not look at the phase of the tagged packet
samplePortTransfer_anyPhase(c, s, buf, q, i, f, pSender, destNode, amount) ==
    IF pSender # q.samplePort[f] THEN q
    ELSE IF q.sampleLatency[f] = -1 /\ q.samplePortPhasePosition[f] >= 0
    THEN sampleLeft(c, s, buf, [q EXCEPT !.samplePortPhasePosition[f] = @ - amount],
                    i, f, destNode)
    ELSE q

\* samplePortTransfer(i, f, pSender, destNode, amount) with the buffers buf
samplePortTransfer(c, s, buf, q, i, f, pSender, destNode, amount) ==
    IF pSender # q.samplePort[f] THEN q
    ELSE IF i # q.samplePhase[f] THEN q
    ELSE IF q.sampleLatency[f] = -1 /\ q.samplePortPhasePosition[f] >= 0
    THEN sampleLeft(c, s, buf, [q EXCEPT !.samplePortPhasePosition[f] = @ - amount],
                    i, f, destNode)
    ELSE q

\* simulatePhase, the samplePortTransfer loop over the flows fs
RECURSIVE sampleTransfers(_, _, _, _, _, _, _)
sampleTransfers(c, s, buf, sent, q, i, fs) ==
    IF fs = << >> THEN q
    ELSE sampleTransfers(c, s, buf, sent,
             samplePortTransfer(c, s, buf, q, i, Head(fs), q.samplePort[Head(fs)],
                 TopoAt(c.network, i, q.samplePort[Head(fs)]),
                 sent[<<q.samplePort[Head(fs)], Head(fs)>>]),
             i, Tail(fs))

\* reschedule(phase), "Update sampling data" of flow f; buf holds the buffers
\* after the deltas of f and sampleChoice is
\* getChoice(phase, PORT_OWNER[samplePort[f]], f)
sampleRescheduled(buf, q, f, sampleChoice) ==
    IF /\ (sampleChoice.port # q.samplePort[f] \/ sampleChoice.phase # q.samplePhase[f])
       /\ q.sampleLatency[f] = -1
       /\ q.sampleEntryStep[f] # -1
    THEN samplePlaced(buf, q, f, sampleChoice, q.samplePortPhasePosition[f])
    ELSE q

\* reschedule(phase), the sampling data of the flows fs
RECURSIVE sampleReschedule(_, _, _, _, _, _)
sampleReschedule(c, s, buf, q, phase, fs) ==
    IF fs = << >> THEN q
    ELSE sampleReschedule(c, s, buf,
             sampleRescheduled(buf, q, Head(fs),
                 getChoice(c, s, phase,
                           c.network.portOwner[q.samplePort[Head(fs)]], Head(fs))),
             phase, Tail(fs))

\* reschedule(phase) of the sampling model on cur = [ok, buf, q]
sampleToggled(c, s, cur, phase, r) ==
    [ok |-> r.ok, buf |-> r.buf,
     q |-> IF r.ok THEN sampleReschedule(c, s, r.buf, cur.q, phase,
                            Ascending(Flows(c.network)))
           ELSE cur.q]

\* the schedule toggle of the sampling model for the phases ps in ascending
\* order
RECURSIVE sampleToggle(_, _, _, _)
sampleToggle(c, s, cur, ps) ==
    IF ps = << >> \/ ~cur.ok THEN cur
    ELSE sampleToggle(c, s,
             sampleToggled(c, s, cur, Head(ps), reschedule(c, s, cur.buf, Head(ps))),
             Tail(ps))

\* simulatePhase, "Add ingress": sampleIngressAdded for the flows fs
RECURSIVE sampleIngress(_, _, _, _)
sampleIngress(t, last, q, fs) ==
    IF fs = << >> THEN q
    ELSE sampleIngress(t, last,
             sampleIngressAdded(last.final, q, Head(fs), last.injected[Head(fs)],
                                last.ingressChoice[Head(fs)]),
             Tail(fs))

\* nextPhase of the sampling model: the step counter
sampleNextPhase(q) == [q EXCEPT !.gCurrentStep = @ + 1]

\* a step that updates the sampling data in reschedule before it looks at what
\* the ports transferred
sampled_toggleFirst(c, s, last, q) ==
    sampleNextPhase(
        sampleIngress(c.network, last,
            sampleTransfers(c, s, last.toggled, last.sent,
                sampleToggle(c, s, [ok |-> TRUE, buf |-> last.applied, q |-> q],
                             Ascending(c.toggle)).q,
                last.phase, Ascending(Flows(c.network))),
            Ascending(Flows(c.network))))

\* what a simulatePhase of the sampling model that did last does to the
\* sampling globals q: samplePortTransfer, schedule toggle, sampleIngressAdded,
\* nextPhase; s is the process after extPrepareChoices
sampled(c, s, last, q) ==
    sampleNextPhase(
        sampleIngress(c.network, last,
            sampleToggle(c, s,
                [ok |-> TRUE, buf |-> last.applied,
                 q |-> sampleTransfers(c, s, last.applied, last.sent, q, last.phase,
                                       Ascending(Flows(c.network)))],
                Ascending(c.toggle)).q,
            Ascending(Flows(c.network))))

-----------------------------------------------------------------------------
(* Scenarios: the model parameters the template is instantiated with.      *)

\* the Network that __ON_CONSTRUCT__ pushes for the given model constants
Net(numPhases, numNodes, owner, rows, flows, capacities, bandwidths) ==
    [num_phases |-> numPhases, num_nodes |-> numNodes,
     num_ports |-> Len(owner), num_flows |-> Len(flows),
     portOwner |-> Z(owner), topology |-> Z(rows), flows |-> Z(flows),
     capacities |-> Z(capacities), bandwidths |-> Z(bandwidths)]

Flow(ingress, egress, amount) ==
    [ingress |-> ingress, egress |-> egress, amount |-> amount]

\* three nodes with one port each, the targets rotate with the phase; port 0
\* holds 2 packets, above its capacity, after the third step and 1 after the
\* fourth
Ring3 ==
    Net(2, 3, <<0, 1, 2>>,
        <<1, 2, 0>> \o <<2, 0, 1>>,
        <<Flow(0, 2, 1), Flow(1, 0, 2)>>,
        <<1, 8, 8>>, <<2, 2, 2>>)

\* TOPOLOGY and port owners of fromTestData, one flow 0 -> 3
TestData ==
    Net(4, 5, <<0, 0, 1, 1, 2, 2, 3, 3, 4, 4>>,
        <<1, 3, 2, 4, 3, 0, 4, 1, 0, 2>> \o <<2, 4, 3, 0, 4, 1, 0, 2, 1, 3>>
        \o <<3, 1, 4, 2, 0, 3, 1, 4, 2, 0>> \o <<4, 2, 0, 3, 1, 4, 2, 0, 3, 1>>,
        <<Flow(0, 3, 1)>>,
        <<8, 8, 8, 8, 8, 8, 8, 8, 8, 8>>, <<1, 1, 1, 1, 1, 1, 1, 1, 1, 1>>)

\* node 0 reaches the egress 2 through two parallel ports; two flows share them
TwoPath ==
    Net(2, 3, <<0, 0, 1, 2>>,
        <<2, 2, 2, 0>> \o <<2, 2, 2, 1>>,
        <<Flow(0, 2, 1), Flow(0, 2, 1)>>,
        <<2, 2, 4, 4>>, <<1, 1, 2, 2>>)

\* one flow injects more per step than its only port can hold
Burst ==
    Net(2, 2, <<0, 1>>,
        <<1, 0>> \o <<1, 0>>,
        <<Flow(0, 1, 5)>>,
        <<4, 4>>, <<8, 8>>)

\* port 1 of node 0 leads to the nodes 2 and 3, which only reach each other
DeadEnd ==
    Net(2, 4, <<0, 0, 1, 2, 3>>,
        <<1, 2, 0, 3, 2>> \o <<1, 2, 0, 3, 2>>,
        <<Flow(0, 1, 1)>>,
        <<8, 8, 8, 8, 8>>, <<2, 2, 2, 2, 2>>)

\* the egress node 2 owns no port
SinkEgress ==
    Net(2, 3, <<0, 1>>,
        <<2, 0>> \o <<1, 2>>,
        <<Flow(0, 2, 1)>>,
        <<8, 8>>, <<2, 2>>)

\* the topology of TwoPath with one flow that injects three packets per step
\* where a port sends one: the ports of node 0 fill up
Crowded ==
    Net(2, 3, <<0, 0, 1, 2>>,
        <<2, 2, 2, 0>> \o <<2, 2, 2, 1>>,
        <<Flow(0, 2, 3)>>,
        <<4, 4, 4, 4>>, <<1, 1, 2, 2>>)

\* the one flow enters and leaves at node 0
SelfFlow ==
    Net(2, 2, <<0, 1>>,
        <<1, 0>> \o <<1, 0>>,
        <<Flow(0, 0, 1)>>,
        <<8, 8>>, <<2, 2>>)

\* in phase 1 port 0 leads back to node 0, the node that owns it
SelfLoop ==
    Net(2, 2, <<0, 1>>,
        <<1, 0>> \o <<0, 0>>,
        <<Flow(0, 1, 1)>>,
        <<8, 8>>, <<2, 2>>)

\* a static ring: every packet of the one flow takes two hops, 0 -> 1 -> 2
Relay ==
    Net(2, 3, <<0, 1, 2>>,
        <<1, 2, 0>> \o <<1, 2, 0>>,
        <<Flow(0, 2, 1)>>,
        <<8, 8, 8>>, <<2, 2, 2>>)

Scenarios == {Ring3, TestData, TwoPath, Burst, DeadEnd, SinkEgress}

\* the static ring of Relay with five phases and a flow of three packets per
\* step: the tagged packet travels among the packets injected with it
Convoy ==
    Net(5, 3, <<0, 1, 2>>,
        <<1, 2, 0>> \o <<1, 2, 0>> \o <<1, 2, 0>> \o <<1, 2, 0>> \o <<1, 2, 0>>,
        <<Flow(0, 2, 3)>>,
        <<8, 8, 8>>, <<4, 4, 4>>)

\* the scenarios run with the sampling model
Sampled == {TwoPath, Relay, Convoy}

-----------------------------------------------------------------------------
(* Bounds *)

\* simulatePhase calls explored after a begin
MaxSteps == 6

\* simulatePhase calls explored per run of the sampling model
MaxSampleSteps == 56

\* the largest fint(random(70.0)) explored by setup()
MaxJitter == 1

\* draws of random_gen explored after it was seeded
MaxDraws == 8
\* the longest candidate list that hash_bounded is asked to index
MaxListSize == 8

-----------------------------------------------------------------------------
(* The state machine: the host loads the library (__ON_CONSTRUCT__), may   *)
(* evaluate verifyConstraints, starts runs (__ON_BEGIN__), steps the        *)
(* simulator and may ask the scheduler for a choice between the steps.      *)

Exts == {"fixed", "rnd_choice", "capacity"}

Approaches == {"quickest", "fewest_hops"}

\* CHOICE_NUM_PATHS / CAPACITY_NUM_PATHS: the default, the extremes
NumPaths == {1, 2, 8}

\* CAPACITY_TRESHOLD as a fraction: the default 0.7, and 0.01
Tresholds == {[num |-> 7, den |-> 10], [num |-> 1, den |-> 100]}

\* the Params that readEnvVars can leave for the scheduler x
ParamsOf(x) ==
    IF x = "fixed"
    THEN {[approach |-> a, numPaths |-> 1, alternativeTreshold |-> [num |-> 7, den |-> 10]]
            : a \in Approaches}
    ELSE IF x = "rnd_choice"
    THEN {[approach |-> a, numPaths |-> k, alternativeTreshold |-> [num |-> 7, den |-> 10]]
            : a \in Approaches, k \in NumPaths}
    ELSE [approach : Approaches, numPaths : NumPaths, alternativeTreshold : Tresholds]

\* the outcomes of the signed overflow in the Router: the sum wraps around or
\* the build traps; without an overflow every build behaves the same
Builds(x, t, prm) ==
    IF x # "fixed" /\ RouterOverflows(t, prm) THEN {"wrap", "trap"} ELSE {"wrap"}

\* customSetup does not return: the Router's addition trapped
SetupTraps(x, b, t, prm) == x # "fixed" /\ b = "trap" /\ RouterOverflows(t, prm)

\* customSetup: the solutions of the multipath schedulers
customSetup(x, b, t, prm) ==
    IF x = "fixed" \/ SetupTraps(x, b, t, prm) THEN << >>
    ELSE constructSolutions(t, prm)

NoQuery == [phase |-> -1, node |-> -1, flow |-> -1, choice |-> NoChoice]

NoStep == [phase |-> -1]
\* no hash_bounded call is followed
NoHash == [x |-> <<0, 0>>, m |-> 0, index |-> 0]

\* the scenarios that are simulated; TestData only exercises the schedulers
Simulated == {Ring3, TwoPath, Burst, DeadEnd, SinkEgress, SelfFlow, SelfLoop,
              Crowded}

\* the library is loaded and the model constants are pushed; extSetup has not
\* run yet
\* the sampling globals are those of the record q
SamplerIs(q) ==
    /\ gCurrentStep = q.gCurrentStep
    /\ sampleIntroIndex = q.sampleIntroIndex
    /\ sampleEntryStep = q.sampleEntryStep
    /\ samplePortPhasePosition = q.samplePortPhasePosition
    /\ samplePort = q.samplePort
    /\ samplePhase = q.samplePhase
    /\ sampleLatency = q.sampleLatency

Loaded(nets) ==
    /\ ext \in Exts
    /\ network \in nets
    /\ params \in ParamsOf(ext)
    /\ toggle \in {{}, Phases(network)}
    /\ build \in Builds(ext, network, params)
    /\ buffers = constructed(network).buffers
    /\ pChoiceCache = constructed(network).pChoiceCache
    /\ random_gen = constructed(network).random_gen
    /\ random_num = constructed(network).random_num
    /\ gPortBuffers = constructed(network).gPortBuffers
    /\ gCurrentPhase = constructed(network).gCurrentPhase
    /\ gDidOverflow = constructed(network).gDidOverflow
    /\ gPortSent = constructed(network).gPortSent
    /\ maxSendFromPortInPhase = constructed(network).maxSendFromPortInPhase
    /\ constraints = "unchecked"
    /\ steps = 0
    /\ window = << >>
    /\ lastQuery = NoQuery
    /\ lastStep = NoStep
    /\ shadow = constructed(network)
    /\ SamplerIs(declaredSampler(network))
    /\ hashed = NoHash

\* the state after __ON_CONSTRUCT__ of a simulated scenario
Init ==
    /\ Loaded(Simulated)
    /\ params.numPaths \in {1, 2}
    /\ pSolutions = customSetup(ext, build, network, params)
    /\ pc = IF SetupTraps(ext, build, network, params) THEN "aborted" ELSE "constructed"

\* before extSetup, for every scenario
RouterInit ==
    /\ Loaded(Scenarios)
    /\ toggle = {}
    /\ pSolutions = << >>
    /\ pc = "loading"

\* the sampling globals become those of the record q
SamplerNext(q) ==
    /\ gCurrentStep' = q.gCurrentStep
    /\ sampleIntroIndex' = q.sampleIntroIndex
    /\ sampleEntryStep' = q.sampleEntryStep
    /\ samplePortPhasePosition' = q.samplePortPhasePosition
    /\ samplePort' = q.samplePort
    /\ samplePhase' = q.samplePhase
    /\ sampleLatency' = q.sampleLatency

\* the process globals become those of the record s
Becomes(s) ==
    /\ buffers' = s.buffers
    /\ pChoiceCache' = s.pChoiceCache
    /\ random_gen' = s.random_gen
    /\ random_num' = s.random_num
    /\ gPortBuffers' = s.gPortBuffers
    /\ gCurrentPhase' = s.gCurrentPhase
    /\ gDidOverflow' = s.gDidOverflow
    /\ gPortSent' = s.gPortSent
    /\ maxSendFromPortInPhase' = s.maxSendFromPortInPhase

\* the generator can draw once more within the explored bound
CanDraw(s) == ext = "rnd_choice" => s.random_gen.n < MaxDraws

\* the effect of a verifyConstraints() with result r, rs on the replayed process
Verified(r, rs) ==
    /\ Becomes(r.proc)
    /\ pc' = IF r.outcome = "abort" THEN "aborted" ELSE pc
    /\ constraints' = IF r.outcome = "true" THEN "ok"
                      ELSE IF r.outcome = "false" THEN "failed"
                      ELSE constraints
    /\ window' = r.answers
    /\ shadow' = IF pc = "running" /\ r.outcome # "abort" THEN rs.proc ELSE shadow

\* the host evaluates verifyConstraints(), before the first step of a run
VerifyConstraints ==
    /\ pc # "aborted"
    /\ steps = 0
    /\ CanDraw(Proc)
    /\ Verified(verifyConstraints(Cfg, Proc), verifyConstraints(Cfg, shadow))
    /\ lastQuery' = NoQuery
    /\ UNCHANGED <<cfgVars, steps, lastStep, sampVars, hashed>>

\* the host starts a run: the simulator state is reset to its declared initial
\* values and __ON_BEGIN__ runs
Begin ==
    /\ pc # "aborted"
    /\ Becomes(begin(Cfg, Proc))
    /\ pc' = "running"
    /\ steps' = 0
    /\ window' = << >>
    /\ lastQuery' = NoQuery
    /\ lastStep' = NoStep
    /\ shadow' = begin(Cfg, constructed(network))
    /\ SamplerNext(declaredSampler(network))
    /\ UNCHANGED <<cfgVars, constraints, hashed>>

\* the effect of a simulatePhase() with result r, rs on the replayed process
Stepped(r, rs) ==
    /\ Becomes(r.proc)
    /\ pc' = IF r.ok THEN pc ELSE "aborted"
    /\ steps' = IF r.ok THEN steps + 1 ELSE steps
    /\ lastStep' = r.last
    /\ window' = IF r.ok THEN r.last.answers ELSE << >>
    /\ shadow' = IF r.ok THEN rs.proc ELSE shadow

\* one simulatePhase() of a run whose constraints hold
SimulatePhase ==
    /\ pc = "running"
    /\ constraints = "ok"
    /\ steps < MaxSteps
    /\ CanDraw(Proc)
    /\ Stepped(simulatePhase(Cfg, Proc), simulatePhase(Cfg, shadow))
    /\ lastQuery' = NoQuery
    /\ UNCHANGED <<cfgVars, constraints, sampVars, hashed>>

\* the effect of a getChoice call that answered choice
Answered(phase, node, flow, choice) ==
    /\ lastQuery' = [phase |-> phase, node |-> node, flow |-> flow,
                     choice |-> choice]
    /\ pc' = IF choice = NoChoice THEN "aborted" ELSE pc
    /\ pChoiceCache' = IF choice = NoChoice THEN pChoiceCache
                       ELSE cacheFilled(Cfg, Proc, {flow})

\* the host calls extGetScheduleChoice(phase, node, flow)
Query(phase, node, flow) ==
    /\ pc # "aborted"
    /\ Answered(phase, node, flow, getChoice(Cfg, Proc, phase, node, flow))
    /\ UNCHANGED <<cfgVars, buffers, random_gen, random_num, simVars,
                   constraints, steps, window, lastStep, shadow, sampVars,
                   hashed>>

Next ==
    \/ VerifyConstraints
    \/ Begin
    \/ SimulatePhase

Spec == Init /\ [][Next]_vars

\* extSetup() at the end of __ON_CONSTRUCT__
Setup ==
    /\ pc = "loading"
    /\ pSolutions' = customSetup(ext, build, network, params)
    /\ pc' = IF SetupTraps(ext, build, network, params) THEN "aborted" ELSE "constructed"
    /\ UNCHANGED <<ext, build, network, params, toggle, extVars, simVars,
                   constraints, steps, window, lastQuery, lastStep, shadow,
                   sampVars, hashed>>

\* the schedulers alone: setup, verifyConstraints and choices, no simulation
RouterNext ==
    \/ Setup
    \/ pc # "loading" /\ VerifyConstraints
    \/ \E phase \in Phases(network), node \in Nodes(network), flow \in Flows(network) :
          pc # "loading" /\ Query(phase, node, flow)

RouterSpec == RouterInit /\ [][RouterNext]_vars

\* the state after __ON_CONSTRUCT__ of the sampling model
SamplingInit ==
    /\ Loaded(Sampled)
    /\ params.numPaths \in {1, 2}
    /\ pSolutions = customSetup(ext, build, network, params)
    /\ pc = IF SetupTraps(ext, build, network, params) THEN "aborted" ELSE "constructed"

\* the template calls setup() on the edge that leaves its initial location
SamplerSetup(jitter) ==
    /\ pc = "running"
    /\ steps = 0
    /\ SamplerNext(setup(network, Sampler, jitter))
    /\ pc' = "sampling"
    /\ UNCHANGED <<cfgVars, extVars, simVars, constraints, steps, window,
                   lastQuery, lastStep, shadow, hashed>>

\* the effect of a simulatePhase() of the sampling model with result r on the
\* process prepared as sp
SampleStepped(sp, r) ==
    /\ Becomes(r.proc)
    /\ pc' = IF r.ok THEN pc ELSE "aborted"
    /\ steps' = IF r.ok THEN steps + 1 ELSE steps
    /\ lastStep' = r.last
    /\ window' = IF r.ok THEN r.last.answers ELSE << >>
    /\ SamplerNext(IF r.ok THEN sampled(Cfg, sp, r.last, Sampler) ELSE Sampler)

\* one simulatePhase() of the sampling model
SamplePhase ==
    /\ pc = "sampling"
    /\ constraints = "ok"
    /\ steps < MaxSampleSteps
    /\ CanDraw(Proc)
    /\ SampleStepped(customPrepareChoices(Cfg, Proc), simulatePhase(Cfg, Proc))
    /\ lastQuery' = NoQuery
    /\ UNCHANGED <<cfgVars, constraints, shadow, hashed>>

\* the constraints are verified once, before the first run
SamplingNext ==
    \/ pc = "constructed" /\ VerifyConstraints
    \/ Begin
    \/ \E jitter \in [Flows(network) -> 0..MaxJitter] : SamplerSetup(jitter)
    \/ SamplePhase

SamplingSpec == SamplingInit /\ [][SamplingNext]_vars

\* the scenarios in which the walk of a packet is followed: every node owns a
\* port and reaches every egress
Walked == {Ring3, TestData, TwoPath, Burst, Relay}

\* the state after __ON_CONSTRUCT__ with the fixed scheduler, no packet followed
WalkInit ==
    /\ Loaded(Walked)
    /\ ext = "fixed"
    /\ toggle = {}
    /\ pSolutions = customSetup(ext, build, network, params)
    /\ pc = "constructed"

\* the followed packet has left the network: its last hop ended at the egress
\* of its flow, where simulatePhase asks for no choice
Left == /\ lastQuery # NoQuery
        /\ lastQuery.node = network.flows[lastQuery.flow].egress

\* a packet of the flow arrives at the node in a step of the phase ("Add
\* ingress", or a node that is followed from here on): simulatePhase asks for
\* its bucket
Arrive(phase, node, flow) ==
    /\ lastQuery = NoQuery \/ Left
    /\ node # network.flows[flow].egress
    /\ Query(phase, node, flow)

\* the step of the bucket's phase sends the followed packet ("Calculate
\* received"): destNode = TOPOLOGY[i][pSender]; the packet leaves the network
\* at the egress, otherwise its bucket is getChoice(i, destNode, f)
Forward ==
    /\ pc = "constructed"
    /\ lastQuery # NoQuery
    /\ ~Left
    /\ LET i == lastQuery.choice.phase
           destNode == TopoAt(network, i, lastQuery.choice.port)
           f == lastQuery.flow
       IN IF destNode = network.flows[f].egress
          THEN /\ lastQuery' = [phase |-> i, node |-> destNode, flow |-> f,
                                choice |-> NoChoice]
               /\ UNCHANGED <<cfgVars, extVars, simVars, pc, constraints, steps,
                              window, lastStep, shadow, sampVars, hashed>>
          ELSE Query(i, destNode, f)

WalkNext ==
    \/ \E phase \in Phases(network), node \in Nodes(network), flow \in Flows(network) :
          Arrive(phase, node, flow)
    \/ Forward

\* the phases follow each other cyclically and a port with packets sends: the
\* bucket of the followed packet is sent after finitely many steps
WalkSpec == WalkInit /\ [][WalkNext]_vars /\ WF_vars(Forward)

\* the 16-bit halves from which the 32-bit outputs of random_gen() are drawn
Halves == {0, 1, 21845, 32768, 65535}

\* the state after __ON_CONSTRUCT__ with the rnd_choice scheduler
HashInit ==
    /\ Loaded({TwoPath})
    /\ ext = "rnd_choice"
    /\ params.numPaths = 2
    /\ toggle = {}
    /\ pSolutions = customSetup(ext, build, network, params)
    /\ pc = "constructed"

\* customPrepareChoices: random_num = random_gen(), which may return any 32-bit
\* value r; the state of the generator is not followed
PrepareChoices(r) ==
    /\ pc = "constructed"
    /\ random_num' = r
    /\ hashed' = NoHash
    /\ UNCHANGED <<cfgVars, buffers, pChoiceCache, random_gen, simVars, pc,
                   constraints, steps, window, lastQuery, lastStep, shadow,
                   sampVars>>

\* EgressSolution::getChoice for a list of m candidates:
\* hash_bounded(((phase << 16) + node) ^ random_num, cpy.size())
Hash(phase, node, m) ==
    /\ pc = "constructed"
    /\ hashed' = [x |-> HashInput(phase, node, random_num), m |-> m,
                  index |-> hash_bounded(HashInput(phase, node, random_num), m)]
    /\ UNCHANGED <<cfgVars, extVars, simVars, pc, constraints, steps, window,
                   lastQuery, lastStep, shadow, sampVars>>

HashNext ==
    \/ \E r \in Halves \X Halves : PrepareChoices(r)
    \/ \E phase \in Phases(network), node \in Nodes(network), m \in 1..MaxListSize :
          Hash(phase, node, m)

\* the selection of the rnd_choice scheduler for arbitrary random numbers
HashSpec == HashInit /\ [][HashNext]_vars

-----------------------------------------------------------------------------
(* Properties *)

\* the test of verifyScheduler on a choice that was returned: the chosen
\* port is owned by the asking node
bufferOwnerIs(t, n, choice) == choice = NoChoice \/ t.portOwner[choice.port] = n

\* the scheduler is set up and the process lives
Serving == pc \in {"constructed", "running"}

C2_AsStated ==
    Serving =>
        \A k \in DOMAIN window : getChoice(Cfg, Proc, k[1], k[2], k[3]) = window[k]


\* a simulatePhase() of the current run has completed; lastStep records it
StepDone == pc = "running" /\ steps > 0

\* packets of the step that left the network: sent by a port whose target in
\* the sending phase is the egress of the flow
delivered(t, last) ==
    SumFn(last.sent, {k \in DOMAIN last.sent :
                        TopoAt(t, last.phase, k[1]) = t.flows[k[2]].egress})

\* C3: every simulatePhase step changes the total of the buffers by exactly
\* the injected amounts minus the packets sent to the egress of their flow;
\* send/receive/apply keeps every other packet, the schedule toggle moves
\* packets only, and "Add ingress" adds exactly the flows' amounts.
C3_Conservation ==
    StepDone =>
        /\ SumFn(lastStep.applied, DOMAIN lastStep.applied)
             = SumFn(lastStep.before, DOMAIN lastStep.before) - delivered(network, lastStep)
        /\ SumFn(lastStep.toggled, DOMAIN lastStep.toggled)
             = SumFn(lastStep.applied, DOMAIN lastStep.applied)
        /\ SumFn(gPortBuffers, DOMAIN gPortBuffers)
             = SumFn(lastStep.toggled, DOMAIN lastStep.toggled)
               + SumFn(lastStep.injected, DOMAIN lastStep.injected)

\* a step that delivered packets, forwarded others to a next hop and injected
C3_Witness ==
    /\ StepDone
    /\ delivered(network, lastStep) > 0
    /\ SumFn(lastStep.recv, DOMAIN lastStep.recv) > 0
    /\ SumFn(lastStep.injected, DOMAIN lastStep.injected) > 0

\* C4 as stated: for the sending phase and every port with packets in its
\* bucket, the flows together send at most min(bandwidth, portBuffered) and
\* fall short of it by at most F - 1.
C4_AsStated ==
    StepDone =>
        \A p \in Ports(network) :
            LET B == portBuffered(network, lastStep.before, lastStep.phase, p)
                S == SumFn(lastStep.sent, {k \in DOMAIN lastStep.sent : k[1] = p})
                m == Min2(network.bandwidths[p], B)
            IN B > 0 => S <= m /\ m - S <= Cardinality(Flows(network)) - 1

\* C5: every bucket is >= 0 in every state, and a step sends from a bucket at
\* most what the bucket held, with or without the schedule toggle.
C5_NonNegative ==
    /\ \A k \in DOMAIN gPortBuffers : gPortBuffers[k] >= 0
    /\ StepDone =>
          /\ \A k \in DOMAIN lastStep.sent :
                /\ lastStep.sent[k] >= 0
                /\ lastStep.sent[k] <= lastStep.before[<<lastStep.phase, k[1], k[2]>>]
          /\ \A k \in DOMAIN lastStep.applied :
                lastStep.applied[k] >= 0 /\ lastStep.toggled[k] >= 0

\* a step with the toggle on that sent a part of a bucket and kept the rest
C5_Witness ==
    /\ StepDone
    /\ toggle # {}
    /\ \E k \in DOMAIN lastStep.sent :
          /\ lastStep.sent[k] > 0
          /\ lastStep.sent[k] < lastStep.before[<<lastStep.phase, k[1], k[2]>>]

\* C6: at every step boundary, when gDidOverflow is false every port holds
\* between 0 and its capacity in total.
C6_Capacity ==
    (pc \in {"constructed", "running"} /\ ~gDidOverflow) =>
        \A p \in Ports(network) :
            /\ 0 <= totalPortBuffered(network, gPortBuffers, p)
            /\ totalPortBuffered(network, gPortBuffers, p) <= network.capacities[p]

\* a step ended with a port filled exactly to its capacity, flag still false
C6_Witness ==
    /\ StepDone
    /\ ~gDidOverflow
    /\ \E p \in Ports(network) :
          totalPortBuffered(network, gPortBuffers, p) = network.capacities[p]

\* C7: a simulatePhase step taken with gDidOverflow set leaves it set, and
\* the step completes as any other: the buffers are those of the step, the
\* phase advances, and the scheduler's copy of the buffers is the new buffers.
C7_StickyNonFatal ==
    [][(gDidOverflow /\ SimulatePhase)
       => /\ gDidOverflow'
          /\ pc' = "running"
          /\ steps' = steps + 1
          /\ lastStep'.before = gPortBuffers
          /\ gCurrentPhase' = nextPhase(network, gCurrentPhase)
          /\ buffers' = gPortBuffers']_vars

\* a step was taken from an overflowed state and the port that overflowed is
\* back within its capacity
C7_Witness ==
    /\ StepDone
    /\ gDidOverflow
    /\ \E p \in Ports(network) :
          totalPortBuffered(network, lastStep.before, p) > network.capacities[p]
    /\ \A p \in Ports(network) :
          totalPortBuffered(network, gPortBuffers, p) <= network.capacities[p]
    /\ gPortBuffers # lastStep.before

\* C8: a run of the randomized scheduler, whatever verifyConstraints() calls or
\* earlier runs the process went through before its begin(), is in step with
\* the run of a freshly constructed process that performs the same calls after
\* its begin(): same generator state, same buffers on both sides, same phase
\* and flag, and from the first prepareChoices on the same random number and
\* the same answers.
C8_Reproducible ==
    (ext = "rnd_choice" /\ pc = "running") =>
        /\ random_gen = shadow.random_gen
        /\ gPortBuffers = shadow.gPortBuffers
        /\ buffers = shadow.buffers
        /\ gCurrentPhase = shadow.gCurrentPhase
        /\ gDidOverflow = shadow.gDidOverflow
        /\ gPortSent = shadow.gPortSent
        /\ random_gen.n > 0 =>
              /\ random_num = shadow.random_num
              /\ \A k \in DOMAIN window :
                    getChoice(Cfg, shadow, k[1], k[2], k[3]) = window[k]

\* two steps into a run whose only prepareChoices before the steps was the
\* one of a verifyConstraints() before begin(); the random number picked an
\* alternative that is not the best one
C8_Witness ==
    /\ ext = "rnd_choice"
    /\ pc = "running"
    /\ steps >= 2
    /\ random_gen.n = steps
    /\ \E k \in DOMAIN window : window[k] # pSolutions[k[3]][<<k[2], k[1]>>][1]

\* the lists of the Router: one per flow and (node, phase), once customSetup
\* of a multipath scheduler has returned
Routed == pSolutions # << >>

\* C9: in every list the Router stores, the ports are pairwise distinct and
\* the length is min(K, number of ports the node owns).
C9_PortDiversity ==
    Routed =>
        \A flow \in DOMAIN pSolutions :
            \A key \in DOMAIN pSolutions[flow] :
                LET options == pSolutions[flow][key]
                IN /\ \A a, b \in 1..Len(options) :
                        options[a].port = options[b].port => a = b
                   /\ Len(options)
                        = Min2(params.numPaths,
                               Cardinality({p \in Ports(network) :
                                               network.portOwner[p] = key[1]}))

\* the test topology with K = 8: every list has exactly the node's two ports
C9_Witness ==
    /\ Routed
    /\ network = TestData
    /\ params.numPaths = 8
    /\ \A key \in DOMAIN pSolutions[0] : Len(pSolutions[0][key]) = 2

\* the cost of the candidate (port, phase) for a packet at the node in phase,
\* d being the shortest costs to the egress: the enqueue edge that waits until
\* the candidate's phase plus the cost from the PhasePort on; IntMax stands
\* for a PhasePort from which the egress cannot be reached
candidateCost(t, approach, d, phase, choice) ==
    LET waitTime == ((choice.phase - phase + t.num_phases - 1) % t.num_phases) + 1
        rest == d[vPP(t, ppIndex(t, choice.phase, choice.port))]
    IN IF rest = IntMax THEN IntMax
       ELSE edgeCost(approach, [time |-> waitTime, hop |-> 0, delay |-> 1]) + rest

\* the lists of one solution are in non-decreasing order of candidateCost
costOrdered(t, approach, d, sol) ==
    \A key \in DOMAIN sol :
        \A a \in 1..(Len(sol[key]) - 1) :
            candidateCost(t, approach, d, key[2], sol[key][a])
                <= candidateCost(t, approach, d, key[2], sol[key][a + 1])

\* C10 as stated: every list the Router stores is sorted by non-decreasing
\* cost of its candidates (enqueue edge cost plus shortest cost from the
\* PhasePort to the egress) under the active policy.
C10_AsStated ==
    Routed =>
        \A flow \in DOMAIN pSolutions :
            costOrdered(network, params.approach,
                        Dijkstra(network, vNodes(network, network.flows[flow].egress),
                                 params.approach).d,
                        pSolutions[flow])

\* C11: in every state of a run and for every phase, reschedule(phase) applied
\* to the buffers that a first reschedule(phase) produced, with the scheduler
\* answering as before, changes nothing.
C11_Idempotent ==
    pc = "running" =>
        \A phase \in Phases(network) :
            LET once == reschedule(Cfg, Proc, gPortBuffers, phase)
            IN once.ok => reschedule(Cfg, Proc, once.buf, phase) = once

\* a reschedule that moves packets to another bucket
C11_Witness ==
    /\ pc = "running"
    /\ \E phase \in Phases(network) :
          /\ reschedule(Cfg, Proc, gPortBuffers, phase).ok
          /\ reschedule(Cfg, Proc, gPortBuffers, phase).buf # gPortBuffers

\* a simulatePhase of the sampling model that ran to its end
SampleStepDone == pc = "sampling" /\ steps' = steps + 1

\* C12: every completed step sets the current phase to (phase + 1) mod P and
\* adds one to currentStep of the sampling model; in every state the phase lies
\* in 0..P-1 and equals currentStep mod P, so it is back at its starting value
\* after exactly P steps.
C12_PhaseCyclic ==
    /\ [](/\ gCurrentPhase \in Phases(network)
          /\ gCurrentPhase = gCurrentStep % network.num_phases)
    /\ [][SampleStepDone =>
             /\ gCurrentPhase' = (gCurrentPhase + 1) % network.num_phases
             /\ gCurrentStep' = gCurrentStep + 1]_vars

\* a run in its sixth step, the phase has wrapped twice
C12_Witness ==
    pc = "sampling" /\ gCurrentStep = 5 /\ gCurrentPhase = 1 /\ steps = 5

\* some port leads, in some phase, to the node that owns it
selfLoop(t) ==
    \E phase \in Phases(t), port \in Ports(t) :
        t.topology[phase * t.num_ports + port] = t.portOwner[port]

\* some flow enters and leaves at the same node
selfFlow(t) == \E f \in Flows(t) : t.flows[f].ingress = t.flows[f].egress

\* the scheduler answered every (phase, node, flow) with a port of the asking
\* node in the verifyConstraints call that has just returned
schedulerVerified ==
    /\ steps = 0
    /\ DOMAIN window = Phases(network) \X Nodes(network) \X Flows(network)
    /\ \A k \in DOMAIN window : network.portOwner[window[k].port] = k[2]

\* C13: verifyTopology is false exactly for a network with a self-loop or a
\* self-flow, and verifyConstraints has returned true only for a network
\* without either and with every choice of the scheduler owned by the asking
\* node; a call in which the scheduler passed returned false only for a
\* self-loop or a self-flow.
C13_TopologyValidated ==
    /\ verifyTopology(network) <=> ~(selfLoop(network) \/ selfFlow(network))
    /\ constraints = "ok" => ~selfLoop(network) /\ ~selfFlow(network)
    /\ constraints = "ok" /\ window # << >> /\ steps = 0 => schedulerVerified
    /\ constraints = "failed" /\ schedulerVerified =>
           selfLoop(network) \/ selfFlow(network)

\* verifyConstraints returned false although every choice was owned: the
\* network has a self-flow and no self-loop
C13_Witness ==
    /\ constraints = "failed"
    /\ schedulerVerified
    /\ selfFlow(network)
    /\ ~selfLoop(network)

\* the total load of port in the scheduler's buffers, the sum over the phases
\* of packets / capacity, is strictly below treshold
loadBelow(port, treshold) ==
    SumFn([k \in BufferKeys(network) |-> IF k[2] = port THEN buffers[k] ELSE 0],
          BufferKeys(network)) * treshold.den
        < treshold.num * network.capacities[port]

\* choice is the j-th candidate of cands, the first one whose port is loaded
\* below the treshold, or the first one when no port is
firstBelow(cands, j, choice) ==
    /\ cands[j] = choice
    /\ \/ /\ loadBelow(cands[j].port, params.alternativeTreshold)
          /\ \A i \in 1..(j - 1) : ~loadBelow(cands[i].port, params.alternativeTreshold)
       \/ /\ j = 1
          /\ \A i \in 1..Len(cands) : ~loadBelow(cands[i].port, params.alternativeTreshold)

\* C14: in every state of a run of the capacity scheduler, and for every
\* (phase, node, flow) that has candidates, the choice is the first candidate
\* in cost order whose total port load is strictly below the treshold, and
\* the first candidate when there is none.
C14_FirstBelowTreshold ==
    ext = "capacity" /\ pc = "running" =>
        \A phase \in Phases(network), node \in Nodes(network), flow \in Flows(network) :
            Len(pSolutions[flow][<<node, phase>>]) > 0 =>
                \E j \in 1..Len(pSolutions[flow][<<node, phase>>]) :
                    firstBelow(pSolutions[flow][<<node, phase>>], j,
                               getChoice(Cfg, Proc, phase, node, flow))

\* the second candidate is chosen because the port of the first is loaded
C14_Witness ==
    /\ ext = "capacity"
    /\ pc = "running"
    /\ \E phase \in Phases(network), node \in Nodes(network), flow \in Flows(network) :
          /\ Len(pSolutions[flow][<<node, phase>>]) > 1
          /\ firstBelow(pSolutions[flow][<<node, phase>>], 2,
                        getChoice(Cfg, Proc, phase, node, flow))

\* the scheduler's buffers hold no packet for port, in any phase
idle(port) ==
    \A k \in BufferKeys(network) : k[2] = port => buffers[k] = 0

\* the treshold scenario for the two candidates c1, c2 and the answer choice
tresholdScenario(c1, c2, choice) ==
    /\ (/\ params.alternativeTreshold = [num |-> 7, den |-> 10]
        /\ ~loadBelow(c1.port, [num |-> 7, den |-> 10])
        /\ idle(c2.port)) => choice = c2
    /\ params.alternativeTreshold = [num |-> 1, den |-> 100] =>
          /\ choice = c1 <=> (\/ loadBelow(c1.port, [num |-> 1, den |-> 100])
                              \/ ~loadBelow(c2.port, [num |-> 1, den |-> 100]))
          /\ ~idle(c1.port) /\ idle(c2.port) => choice = c2

overwritesRow(before, bufs, phase, port, data) ==
    \A k \in BufferKeys(network) :
        bufs[k] = IF k[1] = phase /\ k[2] = port THEN data[k[3]] ELSE before[k]

\* C16: after begin and after every completed simulatePhase the scheduler's
\* buffers equal the simulator's for every (phase, port, flow) and
\* extGetPacketsInNetwork is the simulator's total of buffered packets; a
\* pushBuffers(phase, port, data) overwrites exactly the F entries of (phase,
\* port) with data.
C16_Mirrored ==
    pc = "running" =>
        /\ \A k \in BufferKeys(network) : buffers[k] = gPortBuffers[k]
        /\ extGetPacketsInNetwork(network, buffers)
               = totalPacketsBuffered(network, gPortBuffers)
        /\ \A phase \in Phases(network), port \in Ports(network) :
              overwritesRow(buffers,
                  Buffers_pushBuffers(network, buffers, phase, port,
                                      [f \in Flows(network) |-> 100 + f]),
                  phase, port, [f \in Flows(network) |-> 100 + f])

\* after a step of a network with two flows, packets of both are buffered
C16_Witness ==
    /\ StepDone
    /\ network.num_flows = 2
    /\ \A f \in Flows(network) : \E k \in BufferKeys(network) :
          k[3] = f /\ gPortBuffers[k] > 0
    /\ extGetPacketsInNetwork(network, buffers) > 1

\* the simulator's buffers when simulatePhase asks for the ingress choice of
\* flow f: the deltas and the toggle are applied, the flows before f injected
atIngressQuery(last, f) ==
    [k \in BufferKeys(network) |->
        last.toggled[k]
        + (IF k[3] < f /\ last.ingressChoice[k[3]] = [port |-> k[2], phase |-> k[1]]
           THEN last.injected[k[3]] ELSE 0)]

\* the answer of the capacity scheduler to (phase, node, flow) for the loads of
\* the buffers bufs
answerFor(bufs, phase, node, flow) ==
    FlowSolution_getChoice(network, pSolutions[flow], phase, node, bufs,
                           params.alternativeTreshold)

\* C17: every answer the capacity scheduler gave during a completed step,
\* the ingress answers included, is the one for the loads of the buffers
\* pushed last, which are the simulator's buffers at the start of the step.
C17_SnapshotOfLastPush ==
    ext = "capacity" /\ StepDone =>
        /\ \A k \in DOMAIN lastStep.answers :
              lastStep.answers[k] = answerFor(lastStep.before, k[1], k[2], k[3])
        /\ \A f \in Flows(network) :
              lastStep.ingressChoice[f]
                  = answerFor(lastStep.before, lastStep.phase,
                              network.flows[f].ingress, f)

\* C17 as stated: the ingress answer of a step is the one for the loads of
\* the simulator's buffers at the time of the query.
C17_AsStated ==
    ext = "capacity" /\ StepDone =>
        \A f \in Flows(network) :
            lastStep.ingressChoice[f]
                = answerFor(atIngressQuery(lastStep, f), lastStep.phase,
                            network.flows[f].ingress, f)

\* a step whose ingress answer is not the one for the simulator's buffers at
\* the time of the query
C17_Witness ==
    /\ ext = "capacity"
    /\ StepDone
    /\ \E f \in Flows(network) :
          /\ lastStep.before # atIngressQuery(lastStep, f)
          /\ lastStep.ingressChoice[f]
                 # answerFor(atIngressQuery(lastStep, f), lastStep.phase,
                             network.flows[f].ingress, f)
          /\ lastStep.ingressChoice[f]
                 = answerFor(lastStep.before, lastStep.phase,
                             network.flows[f].ingress, f)

\* the node that port leads to in the phase of the last step
destNode(port) == TopoAt(network, lastStep.phase, port)

\* the packets of flow f that the ports in ps sent in the last step
sentFrom(ps, f) ==
    SumFn([p \in Ports(network) |-> IF p \in ps THEN lastStep.sent[<<p, f>>] ELSE 0],
          Ports(network))

\* the ports whose packets of flow f the last step put into the bucket k: their
\* target is not the egress of f and the scheduler's choice for the target is k
sendersInto(k, f) ==
    {p \in Ports(network) :
        /\ destNode(p) # network.flows[f].egress
        /\ lastStep.answers[<<lastStep.phase, destNode(p), f>>]
               = [port |-> k[2], phase |-> k[1]]}

\* C18: in every completed step the packets a port sends to the egress of
\* their flow leave the network and enter no bucket; all others enter exactly
\* the bucket (choice.phase, choice.port) of the choice the scheduler gave
\* for the target of the port, and that port is owned by the target.
C18_ReceiveRouting ==
    StepDone =>
        /\ \A k \in BufferKeys(network) :
              lastStep.recv[k] = sentFrom(sendersInto(k, k[3]), k[3])
        /\ \A p \in Ports(network), f \in Flows(network) :
              destNode(p) # network.flows[f].egress =>
                  network.portOwner[
                      lastStep.answers[<<lastStep.phase, destNode(p), f>>].port]
                      = destNode(p)
        /\ \A f \in Flows(network) :
              SumFn([k \in BufferKeys(network) |->
                        IF k[3] = f THEN lastStep.before[k] - lastStep.applied[k] ELSE 0],
                    BufferKeys(network))
                  = sentFrom({p \in Ports(network) :
                                 destNode(p) = network.flows[f].egress}, f)

\* a step in which one port sends packets of a flow to its egress and another
\* sends packets of the flow to a node that forwards them
C18_Witness ==
    /\ StepDone
    /\ \E f \in Flows(network), p, q \in Ports(network) :
          /\ destNode(p) = network.flows[f].egress
          /\ lastStep.sent[<<p, f>>] > 0
          /\ destNode(q) # network.flows[f].egress
          /\ lastStep.sent[<<q, f>>] > 0

\* the tagged packet of flow f is among the packets that its port sends to the
\* egress of f in the step that starts in this state and sends sent
sampleDelivered(f, sent) ==
    /\ samplePhase[f] = gCurrentPhase
    /\ sampleLatency[f] = -1
    /\ samplePortPhasePosition[f] >= 0
    /\ samplePortPhasePosition[f] < sent[<<samplePort[f], f>>]
    /\ TopoAt(network, gCurrentPhase, samplePort[f]) = network.flows[f].egress

\* C19: samplePortTransfer runs before the schedule toggle and before the
\* ingress: a tagged packet that its port sends to the egress in a step gets
\* its latency in that step whatever the toggle reschedules, and a tagged
\* packet that enters in a step is not transferred in that step.
C19_TransferBeforeToggle ==
    [][SampleStepDone =>
          \A f \in Flows(network) :
              /\ sampleDelivered(f, lastStep'.sent) =>
                     sampleLatency'[f] = gCurrentStep - sampleEntryStep[f]
              /\ sampleEntryStep[f] = -1 /\ sampleEntryStep'[f] # -1 =>
                     /\ sampleEntryStep'[f] = gCurrentStep
                     /\ sampleLatency'[f] = -1]_vars

\* C19 as stated: every step of the sampling model leaves the sampling data
\* as a step does that reschedules before it calls samplePortTransfer.
C19_AsStated ==
    [][SampleStepDone =>
          Sampler' = sampled_toggleFirst(Cfg, customPrepareChoices(Cfg, Proc),
                                         lastStep', Sampler)]_vars

\* the last step rescheduled every phase and delivered the tagged packet of a
\* flow, whose latency is that of this step
C19_Witness ==
    /\ pc = "sampling"
    /\ toggle # {}
    /\ \E f \in Flows(network) :
          /\ sampleLatency[f] > 0
          /\ sampleLatency[f] = (gCurrentStep - 1) - sampleEntryStep[f]

\* C20: the latency of a flow is -1 after setup; a completed step changes it
\* only when it is -1 and the step transfers the tagged packet to the egress
\* of the flow, and then to currentStep - entryStep, which is at least 1, with
\* the position set to -1; a latency different from -1 is not changed by any
\* later step.
C20_SamplerLatency ==
    /\ [](pc = "sampling" =>
             \A f \in Flows(network) :
                 /\ sampleLatency[f] = -1 \/ sampleLatency[f] >= 1
                 /\ steps = 0 => sampleLatency[f] = -1)
    /\ [][SampleStepDone =>
             \A f \in Flows(network) :
                 /\ sampleLatency[f] # -1 => sampleLatency'[f] = sampleLatency[f]
                 /\ sampleDelivered(f, lastStep'.sent) <=>
                        (sampleLatency[f] = -1 /\ sampleLatency'[f] # -1)
                 /\ sampleLatency[f] = -1 /\ sampleLatency'[f] # -1 =>
                        /\ sampleLatency'[f] = gCurrentStep - sampleEntryStep[f]
                        /\ sampleEntryStep[f] < gCurrentStep
                        /\ samplePortPhasePosition'[f] = -1]_vars

\* the tagged packet of a flow took two steps to its egress and the run has
\* gone on since
C20_Witness ==
    /\ pc = "sampling"
    /\ \E f \in Flows(network) :
          /\ sampleLatency[f] = 2
          /\ samplePortPhasePosition[f] = -1
          /\ gCurrentStep > sampleEntryStep[f] + sampleLatency[f] + 1

\* the fixed scheduler answers queries
fixedServing == ext = "fixed" /\ Serving

\* no PhasePort successor on the reverse shortest-path tree of the egress: the
\* node is the egress, or the egress is not reached from PhaseNode(phase, node)
noPortSuccessor(t, approach, phase, node, egress) ==
    \/ node = egress
    \/ Dijkstra(t, vNodes(t, egress), approach).d[vPN(t, pnIndex(t, phase, node))] = IntMax

\* C21 as stated: in the fixed variant, for every (phase, node, egress) without
\* a PhasePort successor on the reverse shortest-path tree, choice returns
\* normally with a port owned by the node and the phase (phase + 1) mod P.
C21_AsStated ==
    fixedServing =>
        \A phase \in Phases(network), node \in Nodes(network), flow \in Flows(network) :
            noPortSuccessor(network, params.approach, phase, node,
                            network.flows[flow].egress)
                => LET c == getChoice(Cfg, Proc, phase, node, flow)
                   IN /\ c # NoChoice
                      /\ network.portOwner[c.port] = node
                      /\ c.phase = phaseAdd(network, phase, 1)

\* the Router has stored its lists: a multipath scheduler was set up
routerServing == ext # "fixed" /\ Serving

\* Node(egress) is not reached from PhaseNode(phase, node) in the temporal graph
unreachable(t, approach, phase, node, egress) ==
    Dijkstra(t, vNodes(t, egress), approach).d[vPN(t, pnIndex(t, phase, node))] = IntMax

\* C22 as stated: for every (phase, node) from which the egress collector
\* vertex is unreachable in the temporal graph, the Router's choice list for
\* that (phase, node) is empty.
C22_AsStated ==
    routerServing =>
        \A flow \in Flows(network), phase \in Phases(network), node \in Nodes(network) :
            unreachable(network, params.approach, phase, node, network.flows[flow].egress)
                => pSolutions[flow][<<node, phase>>] = << >>

\* extSetup has just built the temporal graph of the network
graphBuilt == pc = "constructed" /\ constraints = "unchecked" /\ lastQuery = NoQuery

\* the edges between PhaseNode and PhasePort vertices: the temporal graph
\* without its collector Node vertices
restrictedEdges(t) ==
    LET E == GraphEdges(t)
    IN {E[k] : k \in {j \in DOMAIN E : /\ TVertexOf(t, E[j].src).kind # "TNode"
                                       /\ TVertexOf(t, E[j].dst).kind # "TNode"}}

RECURSIVE cyclicCore(_, _)
\* what is left of the vertex set S after the vertices without a successor in
\* the set are removed again and again: empty exactly when no directed cycle
\* runs through S
cyclicCore(R, S) ==
    LET keep == {v \in S : \E e \in R : e.src = v /\ e.dst \in S}
    IN IF keep = S THEN S ELSE cyclicCore(R, keep)

\* the vertices of the restricted graph that lie on or lead into a cycle
restrictedCore(t) ==
    cyclicCore(restrictedEdges(t),
               {v \in Vertices(t) : TVertexOf(t, v).kind # "TNode"})

\* C23 as stated: for every valid topology the temporal graph restricted to
\* PhaseNode and PhasePort vertices contains no directed cycle.
C23_AsStated ==
    graphBuilt /\ verifyTopology(network) => restrictedCore(network) = {}

\* C23 (as amended): every edge between PhaseNode and PhasePort vertices has a
\* time weight of at least 1 and leads from a vertex of phase i to a vertex of
\* phase (i + time) mod P, so that every directed cycle of the restricted graph
\* takes a positive multiple of P time units; the graph is free of cycles only
\* when it is unrolled in time.
C23_CyclesTakeTime ==
    graphBuilt /\ verifyTopology(network) =>
        \A e \in restrictedEdges(network) :
            /\ e.time >= 1
            /\ TVertexOf(network, e.dst).phase
                 = (TVertexOf(network, e.src).phase + e.time) % network.num_phases

\* C23: the graph of the three-node ring was built and has a cycle through the
\* PhaseNode of node 0 in phase 0
C23_Witness ==
    /\ graphBuilt
    /\ network = Ring3
    /\ verifyTopology(network)
    /\ vPN(network, pnIndex(network, 0, 0)) \in restrictedCore(network)

\* every node owns a port and every PhaseNode reaches the egress of every flow
everywhereReachable(t, approach) ==
    /\ \A n \in Nodes(t) : \E p \in Ports(t) : t.portOwner[p] = n
    /\ \A f \in Flows(t) :
          LET d == Dijkstra(t, vNodes(t, t.flows[f].egress), approach).d
          IN \A i \in Phases(t), n \in Nodes(t) : d[vPN(t, pnIndex(t, i, n))] < IntMax

\* a packet is followed on its way through the network
walking == lastQuery # NoQuery /\ ~Left

\* C24: under the fixed scheduler, on a topology where every node owns a port
\* and the egress is reachable from every PhaseNode, the walk of a packet that
\* the simulator performs (bucket choice(i, n, f), sent in the phase of the
\* bucket to the target of its port, asked again there with the sending phase)
\* reaches the egress of its flow after finitely many hops.
C24_EventualDelivery ==
    [](everywhereReachable(network, params.approach) /\ walking => <>Left)

\* C24: a packet of the flow 1 -> 0 of the three-node ring was followed from
\* its bucket to the egress
C24_Witness ==
    /\ network = Ring3
    /\ everywhereReachable(network, params.approach)
    /\ Left
    /\ lastQuery.flow = 1

\* choice(i, ingress(f), f) as the scheduler answers it during the last step:
\* the capacity scheduler for the loads pushed before the step, the others as
\* they answer until the next prepareChoices
ingressAnswer(f) ==
    IF ext = "capacity"
    THEN answerFor(lastStep.before, lastStep.phase, network.flows[f].ingress, f)
    ELSE getChoice(Cfg, Proc, lastStep.phase, network.flows[f].ingress, f)

\* C25: in every completed step at phase i, for each flow f exactly
\* flows[f].amount packets are added to the single bucket (choice.phase,
\* choice.port) of choice(i, ingress(f), f), on top of the buffers that the
\* send/receive deltas and the toggle left; no other bucket changes, and the
\* overflow check sees the injected packets.
C25_IngressInjection ==
    StepDone =>
        /\ \A f \in Flows(network) : lastStep.ingressChoice[f] = ingressAnswer(f)
        /\ \A k \in BufferKeys(network) :
              gPortBuffers[k] =
                  lastStep.toggled[k]
                  + (IF ingressAnswer(k[3]) = [port |-> k[2], phase |-> k[1]]
                     THEN network.flows[k[3]].amount ELSE 0)
        /\ (\E p \in Ports(network) : ~validPortState(network, gPortBuffers, p))
               => gDidOverflow

\* C25: the first step of the burst scenario injected five packets into a
\* bucket of the ingress node's port, which holds four, and the overflow
\* check of the same step saw them
C25_Witness ==
    /\ StepDone
    /\ network = Burst
    /\ steps = 1
    /\ \E k \in BufferKeys(network) :
          /\ gPortBuffers[k] = 5
          /\ lastStep.toggled[k] = 0
          /\ network.portOwner[k[2]] = network.flows[0].ingress
    /\ gDidOverflow

\* the vertices as the spec numbers them
specNode(t, n) == n
specPhaseNode(t, i, n) == t.num_nodes + i * t.num_nodes + n
specPhasePort(t, i, p) == t.num_nodes + t.num_phases * t.num_nodes + i * t.num_ports + p

\* the edges the spec lists: transfer, enqueue and collector edges
specEdges(t) ==
    {[src |-> specPhasePort(t, i, p),
      dst |-> specPhaseNode(t, (i + 1) % t.num_phases, t.topology[i * t.num_ports + p]),
      time |-> 1, hop |-> 1, delay |-> 0] : i \in Phases(t), p \in Ports(t)}
    \cup
    {[src |-> specPhaseNode(t, x[1], t.portOwner[x[2]]),
      dst |-> specPhasePort(t, (x[1] + x[3]) % t.num_phases, x[2]),
      time |-> x[3], hop |-> 0, delay |-> 1]
        : x \in Phases(t) \X Ports(t) \X (1..t.num_phases)}
    \cup
    {[src |-> specPhaseNode(t, i, n), dst |-> specNode(t, n),
      time |-> 0, hop |-> 0, delay |-> 0] : i \in Phases(t), n \in Nodes(t)}

\* the descriptors createVertices has handed out
descriptors(t) ==
    {vNodes(t, i) : i \in 0..(t.num_nodes - 1)}
    \cup {vPN(t, i) : i \in 0..(t.num_phases * t.num_nodes - 1)}
    \cup {vPP(t, i) : i \in 0..(t.num_phases * t.num_ports - 1)}

\* C26: the temporal graph of any topology has exactly N + P*N + P*Q vertices;
\* its edges are exactly one transfer edge PhasePort(i,p) -> PhaseNode((i+1)
\* mod P, target[i][p]) of weight (1,1,0) per (i,p), one enqueue edge
\* PhaseNode(i, owner[p]) -> PhasePort((i+w) mod P, p) of weight (w,0,1) per
\* (i,p) and w in 1..P, and one collector edge PhaseNode(i,n) -> Node(n) of
\* weight (0,0,0) per (i,n); nIndex, pnIndex and ppIndex lead to the vertex
\* that carries exactly the given phase and node or port.
C26_GraphConstruction ==
    graphBuilt =>
        LET t == network
            E == GraphEdges(t)
        IN /\ Cardinality(descriptors(t))
                = t.num_nodes + t.num_phases * t.num_nodes + t.num_phases * t.num_ports
           /\ descriptors(t) = Vertices(t)
           /\ {E[k] : k \in DOMAIN E} = specEdges(t)
           /\ Len(E) = Cardinality(specEdges(t))
           /\ Len(E) = t.num_phases * t.num_ports
                       + t.num_phases * t.num_ports * t.num_phases
                       + t.num_phases * t.num_nodes
           /\ \A n \in Nodes(t) :
                 TVertexOf(t, vNodes(t, nIndex(t, n))) = [kind |-> "TNode", node |-> n]
           /\ \A i \in Phases(t), n \in Nodes(t) :
                 TVertexOf(t, vPN(t, pnIndex(t, i, n)))
                     = [kind |-> "TPhaseNode", phase |-> i, node |-> n]
           /\ \A i \in Phases(t), p \in Ports(t) :
                 TVertexOf(t, vPP(t, ppIndex(t, i, p)))
                     = [kind |-> "TPort", phase |-> i, port |-> p]

\* C26: the graph of the test topology was built: 65 vertices and 220 edges,
\* among them the enqueue edge of port 9 that waits all four phases
C26_Witness ==
    /\ graphBuilt
    /\ network = TestData
    /\ Cardinality(descriptors(network)) = 65
    /\ Len(GraphEdges(network)) = 220
    /\ \E k \in DOMAIN GraphEdges(network) :
          GraphEdges(network)[k] =
              [src |-> specPhaseNode(network, 3, 4), dst |-> specPhasePort(network, 3, 9),
               time |-> 4, hop |-> 0, delay |-> 1]

\* the enqueue edges that leave PhaseNode(phase, node), as candidates
enqueueCandidates(t, node) ==
    {[port |-> p, phase |-> i] : p \in {q \in Ports(t) : t.portOwner[q] = node},
                                 i \in Phases(t)}

\* options[j] costs no more than any candidate whose port is not among the
\* ports of options[1..j-1]
bestOfRest(t, approach, d, phase, node, options, j) ==
    \A c \in enqueueCandidates(t, node) :
        (\A a \in 1..(j - 1) : options[a].port # c.port)
            => candidateCost(t, approach, d, phase, options[j])
                   <= candidateCost(t, approach, d, phase, c)

\* the lists of one solution are optimal for the shortest costs d to egress
optimalLists(t, approach, d, egress, sol) ==
    \A key \in DOMAIN sol :
        (key[1] # egress /\ d[vPN(t, pnIndex(t, key[2], key[1]))] < IntMax)
            => /\ Len(sol[key]) >= 1
               /\ \A j \in 1..Len(sol[key]) :
                     bestOfRest(t, approach, d, key[2], key[1], sol[key], j)

\* C27 as stated: for every egress, policy and (phase, node) other than the
\* egress from which the egress is reachable, the first element of the
\* Router's list minimises, over all enqueue edges leaving PhaseNode(phase,
\* node), the enqueue cost plus the minimum path cost from the PhasePort to the
\* egress, and the j-th element is a minimum-cost candidate among the ports
\* not used by the elements before it.
C27_AsStated ==
    Routed =>
        \A flow \in DOMAIN pSolutions :
            optimalLists(network, params.approach,
                         Dijkstra(network, vNodes(network, network.flows[flow].egress),
                                  params.approach).d,
                         network.flows[flow].egress, pSolutions[flow])

\* the fixed choices of one flow agree in cost with the first elements of the
\* lists sol that the Router computes for the egress of the flow
agreesWithRouter(t, approach, d, flow, sol) ==
    \A phase \in Phases(t), node \in Nodes(t) :
        (node # t.flows[flow].egress /\ d[vPN(t, pnIndex(t, phase, node))] < IntMax)
            => LET c == getChoice(Cfg, Proc, phase, node, flow)
               IN /\ c # NoChoice
                  /\ c \in enqueueCandidates(t, node)
                  /\ Len(sol[<<node, phase>>]) >= 1
                  /\ candidateCost(t, approach, d, phase, c)
                       = candidateCost(t, approach, d, phase, sol[<<node, phase>>][1])

\* C28 as stated: for every (phase, node, flow) with node # egress(flow) and
\* reachable egress, the fixed choice is an enqueue successor PhasePort(phase',
\* port) of PhaseNode(phase, node) whose candidate cost equals the cost of the
\* first element of the Router list computed for the same egress and policy.
C28_AsStated ==
    fixedServing =>
        \A flow \in Flows(network) :
            agreesWithRouter(network, params.approach,
                             Dijkstra(network, vNodes(network, network.flows[flow].egress),
                                      params.approach).d,
                             flow,
                             constructSolutionForEgress(network, network.flows[flow].egress,
                                                        params))

\* the egress nodes that have entries in the cache
cachedEgresses(cache) == {key[3] : key \in DOMAIN cache}

\* the entries that computeToDestination stores for the egress nodes in es
entriesFor(t, approach, es) == CacheWith(t, << >>, approach, es)

\* buffers in which every bucket holds nine packets
fullBuffers(t) == [k \in BufferKeys(t) |-> 9]

\* the cache holds, for each egress it knows, the entries of all P*N (phase,
\* node) pairs, each with the value that the network and the policy determine
cacheComplete ==
    /\ DOMAIN pChoiceCache
         = Phases(network) \X Nodes(network) \X cachedEgresses(pChoiceCache)
    /\ pChoiceCache
         = entriesFor(network, params.approach, cachedEgresses(pChoiceCache))

\* the answer to the last query is the entry of the cache, whatever the
\* buffers hold and whether or not begin() or prepareChoices() come first
answerFromCache ==
    (lastQuery # NoQuery /\ lastQuery.choice # NoChoice) =>
        LET key == <<lastQuery.phase, lastQuery.node,
                     network.flows[lastQuery.flow].egress>>
            again(s) == getChoice(Cfg, s, lastQuery.phase, lastQuery.node, lastQuery.flow)
        IN /\ key \in DOMAIN pChoiceCache
           /\ lastQuery.choice = pChoiceCache[key]
           /\ again(Proc) = lastQuery.choice
           /\ again(begin(Cfg, Proc)) = lastQuery.choice
           /\ again(customPrepareChoices(Cfg, Proc)) = lastQuery.choice
           /\ again([Proc EXCEPT !.buffers = fullBuffers(network)]) = lastQuery.choice
           /\ begin(Cfg, Proc).pChoiceCache = pChoiceCache
           /\ customPrepareChoices(Cfg, Proc).pChoiceCache = pChoiceCache

\* a step keeps every entry of the cache, and what it adds are the entries of
\* all (phase, node) pairs of egress nodes that had none
cacheGrows ==
    /\ \A key \in DOMAIN pChoiceCache :
          key \in DOMAIN pChoiceCache' /\ pChoiceCache'[key] = pChoiceCache[key]
    /\ DOMAIN pChoiceCache' \ DOMAIN pChoiceCache
         = Phases(network) \X Nodes(network)
             \X (cachedEgresses(pChoiceCache') \ cachedEgresses(pChoiceCache))

\* C29: in the fixed variant a cache miss that returns stores the entries of
\* all P*N (phase, node) pairs of its egress and leaves the entries of other
\* egresses as they are; from then on choice(phase, node, flow) returns the
\* same value on every call, whatever the order of the queries, the begin()
\* and prepareChoices calls and the buffer contents.
C29_CacheTransparency ==
    /\ [](fixedServing => cacheComplete /\ answerFromCache)
    /\ [][ext = "fixed" => cacheGrows]_vars

\* C29: in the three-node ring the cache holds the twelve entries of both
\* egress nodes after queries for the two flows, the last one a miss
C29_Witness ==
    /\ fixedServing
    /\ network = Ring3
    /\ cachedEgresses(pChoiceCache) = {0, 2}
    /\ Cardinality(DOMAIN pChoiceCache) = 12
    /\ lastQuery.choice # NoChoice
    /\ constraints = "unchecked"

\* the pairs of distinct flows with the same egress
sameEgress(t) ==
    {x \in Flows(t) \X Flows(t) : x[1] # x[2] /\ t.flows[x[1]].egress = t.flows[x[2]].egress}

\* C30: in all three variants and in every state of a run, two flows with the
\* same egress get the same choice for every phase and node; so do they in
\* the queries that simulatePhase makes in the middle of a step.
C30_EgressOnly ==
    (pc \in {"constructed", "running"}) =>
        \A x \in sameEgress(network) :
            /\ \A phase \in Phases(network), node \in Nodes(network) :
                  getChoice(Cfg, Proc, phase, node, x[1])
                      = getChoice(Cfg, Proc, phase, node, x[2])
            /\ \A k \in DOMAIN window :
                  (k[3] = x[1] /\ <<k[1], k[2], x[2]>> \in DOMAIN window)
                      => window[k] = window[<<k[1], k[2], x[2]>>]

\* C30: a run of the two-path scenario, whose two flows share the egress, in
\* which the scheduler now answers the ingress node with another port than it
\* did during the last step, for both flows alike
C30_Witness ==
    /\ StepDone
    /\ network = TwoPath
    /\ sameEgress(network) # {}
    /\ getChoice(Cfg, Proc, lastStep.phase, 0, 0) # lastStep.ingressChoice[0]
    /\ getChoice(Cfg, Proc, lastStep.phase, 0, 0) = getChoice(Cfg, Proc, lastStep.phase, 0, 1)
    /\ lastStep.ingressChoice[0] = lastStep.ingressChoice[1]

\* the elements of a list
elementsOf(list) == {list[k] : k \in 1..Len(list)}

\* C31: for every 32-bit x = ((phase << 16) + node) xor r and every list size
\* m with 1 <= m <= 8, index = ((((a*x + b) mod 2^64) >> 32) * m) >> 32
\* satisfies 0 <= index < m, so the randomized variant always returns an
\* element of the Router's choice list for (phase, node).
C31_IndexInRange ==
    /\ hashed # NoHash => 0 <= hashed.index /\ hashed.index < hashed.m
    /\ (ext = "rnd_choice" /\ Serving) =>
          \A phase \in Phases(network), node \in Nodes(network), flow \in Flows(network) :
              pSolutions[flow][<<node, phase>>] # << >>
                  => /\ hash_bounded(HashInput(phase, node, random_num),
                                     Len(pSolutions[flow][<<node, phase>>]))
                          \in 0..(Len(pSolutions[flow][<<node, phase>>]) - 1)
                     /\ getChoice(Cfg, Proc, phase, node, flow)
                          \in elementsOf(pSolutions[flow][<<node, phase>>])

\* C31: a list of eight candidates was indexed at its last element, for a
\* random number with the top bit set
C31_Witness ==
    /\ hashed.m = 8
    /\ hashed.index = 7
    /\ random_num[1] >= 32768

\* the sampling model runs: setup() has been called
Sampling == pc = "sampling"

\* amounts a port may have sent of one flow
SentAmounts == 0..2

\* the calls samplePortTransfer(i, f, pSender, TOPOLOGY[i][pSender], amount)
TransferCalls ==
    Phases(network) \X Flows(network) \X Ports(network) \X SentAmounts

\* the sampling globals after the call x made in the current state
afterTransfer(x) ==
    samplePortTransfer(Cfg, Proc, gPortBuffers, Sampler, x[1], x[2], x[3],
                       TopoAt(network, x[1], x[3]), x[4])

\* the call x is for the port and the phase of the tagged packet of its flow,
\* whose latency is not taken yet
transferRelevant(x) ==
    /\ x[3] = samplePort[x[2]]
    /\ x[1] = samplePhase[x[2]]
    /\ sampleLatency[x[2]] = -1

\* what the call x does to a tagged packet at position pos of its bucket: the
\* position falls by the amount; below zero the packet leaves the port, for
\* the egress (latency taken) or for the bucket chosen at the target
transferEffect(x, pos) ==
    LET f == x[2]
        target == TopoAt(network, x[1], x[3])
        choice == getChoice(Cfg, Proc, x[1], target, f)
    IN IF pos - x[4] >= 0
       THEN [Sampler EXCEPT !.samplePortPhasePosition[f] = pos - x[4]]
       ELSE IF target = network.flows[f].egress
       THEN [Sampler EXCEPT !.sampleLatency[f] = gCurrentStep - sampleEntryStep[f],
                            !.samplePortPhasePosition[f] = -1]
       ELSE [Sampler EXCEPT !.samplePortPhasePosition[f] =
                                gPortBuffers[<<choice.phase, choice.port, f>>]
                                + (pos - x[4]),
                            !.samplePort[f] = choice.port,
                            !.samplePhase[f] = choice.phase]

\* C32 as stated: samplePortTransfer(i, f, pSender, destNode, amount_sent)
\* leaves the sampler state of flow f unchanged unless pSender = port[f],
\* i = phase[f] and latency[f] = -1; whenever those three conditions hold it
\* decreases position[f] by amount_sent (and moves or resolves the tagged
\* packet if the position becomes negative).
C32_AsStated ==
    Sampling =>
        \A x \in TransferCalls :
            afterTransfer(x) =
                IF transferRelevant(x)
                THEN transferEffect(x, samplePortPhasePosition[x[2]])
                ELSE Sampler

\* C32 (as amended): samplePortTransfer leaves the sampler state unchanged
\* unless pSender = port[f], i = phase[f], latency[f] = -1 and the tagged
\* packet is in the network (position[f] >= 0); whenever those four conditions
\* hold it decreases position[f] by amount_sent and moves or resolves the
\* tagged packet if the position becomes negative.
C32_TransferGuard ==
    Sampling =>
        \A x \in TransferCalls :
            afterTransfer(x) =
                IF transferRelevant(x) /\ samplePortPhasePosition[x[2]] >= 0
                THEN transferEffect(x, samplePortPhasePosition[x[2]])
                ELSE Sampler

\* C32: in the relay ring the tagged packet has left the port of the ingress
\* node and waits in the port of node 1, in whose phase a transfer call finds
\* it
C32_Witness ==
    /\ Sampling
    /\ network = Relay
    /\ sampleEntryStep[0] # -1
    /\ sampleLatency[0] = -1
    /\ samplePort[0] = 1
    /\ samplePortPhasePosition[0] >= 0
    /\ \E x \in TransferCalls : transferRelevant(x) /\ afterTransfer(x) # Sampler

\* the tagged packet of flow f is inside the network: it has entered and its
\* latency is not taken yet
sampleInNetwork(f) == sampleEntryStep[f] # -1 /\ sampleLatency[f] = -1

\* the tracked bucket of flow f holds the tagged packet: the position is one
\* of its packets
sampleInBucket(f) ==
    /\ 0 <= samplePortPhasePosition[f]
    /\ samplePortPhasePosition[f] < gPortBuffers[<<samplePhase[f], samplePort[f], f>>]

\* C33: with rescheduling disabled, at every step boundary of the sampling
\* model and for every flow f whose tagged packet is inside the network
\* (entryStep[f] # -1 and latency[f] = -1), the tracked bucket contains the
\* packet, 0 <= position[f] < buf[phase[f]][port[f]][f], and the owner of
\* port[f] is a node other than the egress of f.
C33_PositionInBucket ==
    (Sampling /\ toggle = {}) =>
        \A f \in Flows(network) :
            sampleInNetwork(f) =>
                /\ sampleInBucket(f)
                /\ network.portOwner[samplePort[f]] # network.flows[f].egress

\* C33: the tagged packet of the convoy waits behind another packet in the
\* port of node 1, after its first hop
C33_Witness ==
    /\ Sampling
    /\ toggle = {}
    /\ network = Convoy
    /\ sampleInNetwork(0)
    /\ samplePort[0] = 1
    /\ samplePortPhasePosition[0] >= 1

\* the sampling globals in the step that starts in this state once its
\* samplePortTransfer calls are done, before the schedule toggle
afterTransfers ==
    sampleTransfers(Cfg, customPrepareChoices(Cfg, Proc), lastStep'.applied,
                    lastStep'.sent, Sampler, lastStep'.phase,
                    Ascending(Flows(network)))

\* the tagged packet of flow f is in the network in the sampling globals q
inNetwork(q, f) == q.sampleEntryStep[f] # -1 /\ q.sampleLatency[f] = -1

\* the reschedule(phase) calls of a schedule toggle for the phases ps, made
\* on cur = [ok, buf, q]: each with the buffers and the sampling globals
\* before and after the call
RECURSIVE toggleCalls(_, _, _, _)
toggleCalls(c, s, cur, ps) ==
    IF ps = << >> \/ ~cur.ok THEN << >>
    ELSE LET after == sampleToggled(c, s, cur, Head(ps),
                                    reschedule(c, s, cur.buf, Head(ps)))
         IN <<[phase |-> Head(ps), before |-> cur, after |-> after]>>
            \o toggleCalls(c, s, after, Tail(ps))

\* the reschedule calls of the step that starts in this state
stepCalls ==
    toggleCalls(Cfg, customPrepareChoices(Cfg, Proc),
                [ok |-> TRUE, buf |-> lastStep'.applied, q |-> afterTransfers],
                Ascending(toggle))

\* the call leaves the tagged packet of flow f, which is in the network, in
\* another bucket than it was in
sampleMoved(call, f) ==
    /\ call.after.ok
    /\ inNetwork(call.before.q, f)
    /\ \/ call.after.q.samplePort[f] # call.before.q.samplePort[f]
       \/ call.after.q.samplePhase[f] # call.before.q.samplePhase[f]

\* the bucket in which the sampling globals q track the tagged packet of f
sampleBucket(q, f) == <<q.samplePhase[f], q.samplePort[f], f>>

\* C34 as stated: when reschedule moves the tagged packet of flow f to a new
\* bucket (new_phase, new_port), the port and phase of the sampler are set to
\* that bucket and its position becomes
\* buf_before_move[new_phase][new_port][f] + old_position, where
\* buf_before_move is the content of the bucket before the staged deltas of
\* this reschedule were applied.
C34_AsStated ==
    [][SampleStepDone =>
          \A call \in elementsOf(stepCalls) : \A f \in Flows(network) :
              sampleMoved(call, f) =>
                  call.after.q.samplePortPhasePosition[f] =
                      call.before.buf[sampleBucket(call.after.q, f)]
                      + call.before.q.samplePortPhasePosition[f]]_vars

\* the packets of flow f that the buffers buf hold at node n, in the ports it
\* owns and for all phases
heldAt(buf, n, f) ==
    SumFn(buf, {k \in BufferKeys(network) :
                   k[3] = f /\ network.portOwner[k[2]] = n})

\* the buffers after are the buffers buf with packets moved away from buckets
\* of the phase only, within each node and flow, and without a negative bucket
movedLocally(buf, after, phase) ==
    /\ \A n \in Nodes(network), f \in Flows(network) :
           heldAt(after, n, f) = heldAt(buf, n, f)
    /\ \A k \in BufferKeys(network) :
           /\ after[k] >= 0
           /\ k[1] # phase => after[k] >= buf[k]

\* C35: for every phase, a reschedule(phase) that returns preserves for each
\* flow f and each node n the total of the buffers over all phases and all
\* ports owned by n; packets leave buckets of the phase only, and no bucket
\* becomes negative.
C35_LocalConservation ==
    pc = "running" =>
        \A phase \in Phases(network) :
            LET r == reschedule(Cfg, Proc, gPortBuffers, phase)
            IN r.ok => movedLocally(gPortBuffers, r.buf, phase)

\* C35: a reschedule moves packets from one port to another port of the same
\* node
C35_Witness ==
    /\ pc = "running"
    /\ \E phase \in Phases(network) :
          LET r == reschedule(Cfg, Proc, gPortBuffers, phase)
          IN /\ r.ok
             /\ \E k, m \in BufferKeys(network) :
                   /\ k[2] # m[2]
                   /\ r.buf[k] < gPortBuffers[k]
                   /\ r.buf[m] > gPortBuffers[m]

\* port, phase and position of the tagged packet of flow f in the sampling
\* globals q
samplePlace(q, f) ==
    <<q.samplePort[f], q.samplePhase[f], q.samplePortPhasePosition[f]>>

\* the call is for the bucket of the tagged packet of flow f: the packet is in
\* the network and buffered for the phase of the call
sampleMigrated(call, f) ==
    /\ inNetwork(call.before.q, f)
    /\ call.before.q.samplePhase[f] = call.phase

\* C36 as stated: reschedule(phase) changes port, phase or position of the
\* sampler of flow f only if the tagged packet is in the network and its
\* bucket is one that this call migrates, so that samplePhase[f] = phase; for
\* a tagged packet buffered for another phase the sampler state is left
\* unchanged.
C36_AsStated ==
    [][SampleStepDone =>
          \A call \in elementsOf(stepCalls) : \A f \in Flows(network) :
              (/\ call.after.ok
               /\ samplePlace(call.after.q, f) # samplePlace(call.before.q, f))
                  => sampleMigrated(call, f)]_vars

=============================================================================
